---- MODULE Spec2Model ----
(***************************************************************************)
(* Logseq MCP server (file-backed variant, "Logseq Complete MCP" v4.0):    *)
(* the outline text model (parseBlocks) and the block mutation tools       *)
(* (insert_block, get_block, update_block, delete_block) that rewrite the  *)
(* page files.  Strings are sequences of one-character strings; a file is  *)
(* its raw text, split on "\n" whenever the code splits it.                *)
(***************************************************************************)
EXTENDS Integers, Sequences, FiniteSets, TLC

\* ------------------------------------------------------------------------
\* Bounds of the model
\* ------------------------------------------------------------------------
\* a session is at most MaxInserts inserts followed by at most MaxRequests
\* requests that address a block (get, update, delete)
MaxInserts == 2
MaxRequests == 1

\* ------------------------------------------------------------------------
\* JavaScript string primitives
\* ------------------------------------------------------------------------
Rep(c, n) == [i \in 1..n |-> c]

NL == "\n"

IsSpace(c) == c \in {" ", "\t"}

Min(a, b) == IF a < b THEN a ELSE b

\* the least element of a set of positive numbers, 0 for the empty set
First(S) == IF S = {} THEN 0 ELSE CHOOSE i \in S : \A j \in S : i <= j

\* s.slice(from) / s.slice(0, n)
SliceFrom(s, from) == SubSeq(s, from + 1, Len(s))
SliceTo(s, n) == SubSeq(s, 1, Min(n, Len(s)))

\* length of the match of /^\s*/
LeadWs(s) ==
  LET ink == {i \in 1..Len(s) : ~IsSpace(s[i])} IN
  IF ink = {} THEN Len(s) ELSE First(ink) - 1

TrimStart(s) == SubSeq(s, LeadWs(s) + 1, Len(s))

Trim(s) ==
  LET ink == {i \in 1..Len(s) : ~IsSpace(s[i])} IN
  IF ink = {} THEN <<>> ELSE SubSeq(s, First(ink), CHOOSE i \in ink : \A j \in ink : j <= i)

MatchAt(s, p, i) == i + Len(p) - 1 <= Len(s) /\ \A j \in 1..Len(p) : s[i + j - 1] = p[j]

StartsWith(s, p) == MatchAt(s, p, 1)

Includes(s, p) == \E i \in 1..(Len(s) + 1) : MatchAt(s, p, i)

\* 1-based position of the first occurrence, 0 when there is none
IndexOf(s, p) == First({i \in 1..(Len(s) + 1) : MatchAt(s, p, i)})

RECURSIVE Split(_)
Split(s) ==
  LET i == First({k \in 1..Len(s) : s[k] = NL}) IN
  IF i = 0 THEN <<s>> ELSE <<SubSeq(s, 1, i - 1)>> \o Split(SubSeq(s, i + 1, Len(s)))

RECURSIVE Join(_)
Join(ls) ==
  IF Len(ls) = 0 THEN <<>>
  ELSE IF Len(ls) = 1 THEN ls[1]
  ELSE ls[1] \o <<NL>> \o Join(Tail(ls))

\* a splice that takes the next line too
SpliceTwo(ls, i) == SubSeq(ls, 1, i - 1) \o SubSeq(ls, i + 2, Len(ls))

\* lines.splice(i, 1) with a 1-based index
Splice(ls, i) == SubSeq(ls, 1, i - 1) \o SubSeq(ls, i + 1, Len(ls))

\* ------------------------------------------------------------------------
\* Character classes and literals of the block syntax
\* ------------------------------------------------------------------------
Digits == {"0", "1", "2", "3", "4", "5", "6", "7", "8", "9"}
HexChars == {"a", "b", "c", "d", "e", "f"} \cup Digits
Lower == {"a", "b", "c", "d", "e", "f", "g", "h", "i", "j", "k", "l", "m",
          "n", "o", "p", "q", "r", "s", "t", "u", "v", "w", "x", "y", "z"}
Upper == {"A", "B", "C", "D", "E", "F", "G", "H", "I", "J", "K", "L", "M",
          "N", "O", "P", "Q", "R", "S", "T", "U", "V", "W", "X", "Y", "Z"}
Bullets == {"-", "*", "+"}
PriorityLetters == {"A", "B", "C"}

ShortLen == 8
FullLen == 36

KwTODO == <<"T", "O", "D", "O">>
KwDOING == <<"D", "O", "I", "N", "G">>
KwDONE == <<"D", "O", "N", "E">>
KwLATER == <<"L", "A", "T", "E", "R">>
KwNOW == <<"N", "O", "W">>
KwWAITING == <<"W", "A", "I", "T", "I", "N", "G">>
KwINPROGRESS == <<"I", "N", "-", "P", "R", "O", "G", "R", "E", "S", "S">>
TodoKeywords == {KwTODO, KwDOING, KwDONE, KwLATER, KwNOW, KwWAITING, KwINPROGRESS}

None == <<"<", "n", "o", "n", "e", ">">>

\* ------------------------------------------------------------------------
\* generateUUID: a v4 UUID is modelled as a value that occurs nowhere else.
\* GenUuid(seed, p, i) is the UUID drawn while parsing line i of page p
\* (seed tells the draws of one call of getAllPages from those of another);
\* InsUuid(k) is the k-th UUID drawn by an insert.
\* ------------------------------------------------------------------------
HexDigit == <<"1", "2", "3", "4", "5", "6", "7", "8", "9", "a", "b", "c", "d", "e", "f">>
UuidTail(c) == <<"-">> \o Rep(c, 4) \o <<"-", "4">> \o Rep(c, 3) \o <<"-", "8">> \o Rep(c, 3) \o <<"-">> \o Rep(c, 12)
GenSeeds == <<"e", "f", "8", "7">>
GenUuid(seed, p, i) == <<seed, HexDigit[p], HexDigit[i]>> \o Rep("9", 5) \o UuidTail(seed)
InsUuid(k) == Rep("d", 7) \o <<HexDigit[k]>> \o UuidTail("d")

\* ------------------------------------------------------------------------
\* parseBlocks, one line at a time
\* ------------------------------------------------------------------------
\* cleanLine.replace(/^[-*+]\s*/, '')
StripBullet(s) == IF Len(s) > 0 /\ s[1] \in Bullets THEN TrimStart(Tail(s)) ELSE s

\* /^([cls]{n})\s+(.*)$/ : n characters of the class, then white space
UuidMatch(s, n, cls) == Len(s) > n /\ (\A i \in 1..n : s[i] \in cls) /\ IsSpace(s[n + 1])

\* group 2 of the patterns above: what follows the token and its white space
AfterToken(s, n) == TrimStart(SliceFrom(s, n))

\* /^(TODO|DOING|DONE|LATER|NOW|WAITING|IN-PROGRESS)\s+(.*)$/
HasTodo(s) == \E kw \in TodoKeywords : StartsWith(s, kw) /\ Len(s) > Len(kw) /\ IsSpace(s[Len(kw) + 1])
TodoOf(s) == CHOOSE kw \in TodoKeywords : StartsWith(s, kw) /\ Len(s) > Len(kw) /\ IsSpace(s[Len(kw) + 1])

\* /\[#([ABC])]/ at position i
CookieAt(s, i) == i + 3 <= Len(s) /\ s[i] = "[" /\ s[i + 1] = "#" /\ s[i + 2] \in PriorityLetters /\ s[i + 3] = "]"
HasCookie(s) == \E i \in 1..Len(s) : CookieAt(s, i)
CookiePos(s) == First({i \in 1..Len(s) : CookieAt(s, i)})

\* number of white-space characters from position i on
WsRun(s, i) == LeadWs(SubSeq(s, i, Len(s)))

WordScheduled == <<"S", "C", "H", "E", "D", "U", "L", "E", "D", ":">>
WordDeadline == <<"D", "E", "A", "D", "L", "I", "N", "E", ":">>

\* /WORD\s*<[^>]+>/ at position i: 0 when it does not match there, else the
\* length of the match
MarkerLen(s, i, word) ==
  IF ~MatchAt(s, word, i) THEN 0
  ELSE LET lt == i + Len(word) + WsRun(s, i + Len(word))
       IN  IF lt > Len(s) \/ s[lt] # "<" THEN 0
           ELSE LET gt == First({k \in (lt + 1)..Len(s) : s[k] = ">"})
                IN  IF gt = 0 \/ gt = lt + 1 THEN 0 ELSE gt - i + 1

NameStart == Lower \cup Upper \cup {"_"}
NameChar == Lower \cup Upper \cup Digits \cup {"_", "-"}

\* length of the run of characters of cls from position i on
RunLen(s, i, cls) ==
  LET stop == First({k \in i..Len(s) : s[k] \notin cls}) IN
  IF stop = 0 THEN Len(s) - i + 1 ELSE stop - i

\* length of the run of characters other than white space from position i on
NonSpaceRun(s, i) ==
  LET stop == First({k \in i..Len(s) : IsSpace(s[k])}) IN
  IF stop = 0 THEN Len(s) - i + 1 ELSE stop - i

\* /([a-zA-Z_][a-zA-Z0-9_-]*):\s*([^\s]+)/ at position i
PropertyLen(s, i) ==
  IF i > Len(s) \/ s[i] \notin NameStart THEN 0
  ELSE LET colon == i + 1 + RunLen(s, i + 1, NameChar)
       IN  IF colon > Len(s) \/ s[colon] # ":" THEN 0
           ELSE LET val == colon + 1 + WsRun(s, colon + 1)
                    vlen == NonSpaceRun(s, val)
                IN  IF vlen = 0 THEN 0 ELSE val + vlen - i

TokenLen(kind, s, i) ==
  CASE kind = "scheduled" -> MarkerLen(s, i, WordScheduled)
    [] kind = "deadline" -> MarkerLen(s, i, WordDeadline)
    [] kind = "property" -> PropertyLen(s, i)
    [] kind = "cookie" -> IF CookieAt(s, i) THEN 4 ELSE 0

\* the character every match of the pattern contains
TokenMark(kind) == IF kind = "cookie" THEN "#" ELSE ":"

\* s.replace(/.../g, ''): remove every match, leftmost first
RECURSIVE RemoveAll(_, _)
RemoveAll(s, kind) ==
  LET i == IF \A k \in 1..Len(s) : s[k] # TokenMark(kind) THEN 0
           ELSE First({k \in 1..Len(s) : TokenLen(kind, s, k) > 0}) IN
  IF i = 0 THEN s
  ELSE SubSeq(s, 1, i - 1) \o RemoveAll(SubSeq(s, i + TokenLen(kind, s, i), Len(s)), kind)

CleanContent(s) == Trim(RemoveAll(RemoveAll(RemoveAll(RemoveAll(s, "scheduled"), "deadline"), "property"), "cookie"))

\* a parse that reads no marker
MarkerValueUnread(s, word) == None

\* group 1 of the first match of /WORD\s*<([^>]+)>/, None when there is none
MarkerValue(s, word) ==
  LET i == IF \A k \in 1..Len(s) : s[k] # ":" THEN 0
           ELSE First({k \in 1..Len(s) : MarkerLen(s, k, word) > 0}) IN
  IF i = 0 THEN None
  ELSE SubSeq(s, i + Len(word) + WsRun(s, i + Len(word)) + 1, i + MarkerLen(s, i, word) - 2)

\* groups 1 and 2 of the match of the property pattern at position i
PropertyAt(s, i) ==
  LET colon == i + 1 + RunLen(s, i + 1, NameChar)
      val == colon + 1 + WsRun(s, colon + 1)
  IN  <<SubSeq(s, i, colon - 1), SubSeq(s, val, i + PropertyLen(s, i) - 1)>>

\* cleanLine.matchAll(/([a-zA-Z_][a-zA-Z0-9_-]*):\s*([^\s]+)/g): the matches,
\* leftmost first, none overlapping another
RECURSIVE PropertyMatches(_)
PropertyMatches(s) ==
  LET i == IF \A k \in 1..Len(s) : s[k] # ":" THEN 0
           ELSE First({k \in 1..Len(s) : PropertyLen(s, k) > 0}) IN
  IF i = 0 THEN <<>>
  ELSE <<PropertyAt(s, i)>> \o PropertyMatches(SubSeq(s, i + PropertyLen(s, i), Len(s)))

\* properties[match[1]] = match[2] for each match in turn: the entries of the
\* object, a key where it was first set, with the value it was last given
RECURSIVE Entries(_, _)
Entries(m, j) ==
  IF j > Len(m) THEN <<>>
  ELSE (IF \E k \in 1..(j - 1) : m[k][1] = m[j][1] THEN <<>>
        ELSE LET lastSet == CHOOSE k \in j..Len(m) :
                              m[k][1] = m[j][1] /\ \A l \in (k + 1)..Len(m) : m[l][1] # m[j][1]
             IN  << <<m[j][1], m[lastSet][2]>> >>)
       \o Entries(m, j + 1)

\* a depth that starts again from 0 at every fourth column
LevelWrapped(line) == (LeadWs(line) \div 2) % 2

\* Math.floor((line.match(/^\s*/)?.[0]?.length || 0) / 2)
Level(line) == LeadWs(line) \div 2

\* a parse that copies the generated UUID into the content
ParseLineLeaking(line, gen) ==
  IF Trim(line) = <<>> THEN <<>>
  ELSE << [uuid |-> gen, content |-> gen, level |-> Level(line), todo |-> None, priority |-> None,
           scheduled |-> None, deadline |-> None, properties |-> <<>>] >>

\* the parse of one line: the empty sequence when the line yields no block,
\* else the one block; gen is the value generateUUID() returns for the line
ParseLine(line, gen) ==
  IF Trim(line) = <<>> THEN <<>>
  ELSE IF StartsWith(Trim(line), <<"#">>) THEN <<>>
  ELSE
    LET c0 == StripBullet(Trim(line))
        isFull == UuidMatch(c0, FullLen, HexChars \cup {"-"})
        isShort == ~isFull /\ UuidMatch(c0, ShortLen, HexChars)
        uuid == IF isFull THEN SliceTo(c0, FullLen)
                ELSE IF isShort THEN SliceTo(c0, ShortLen) \o SliceFrom(gen, ShortLen)
                ELSE gen
        c1 == IF isFull THEN AfterToken(c0, FullLen)
              ELSE IF isShort THEN AfterToken(c0, ShortLen)
              ELSE c0
        todo == IF HasTodo(c1) THEN TodoOf(c1) ELSE None
        c2 == IF HasTodo(c1) THEN AfterToken(c1, Len(TodoOf(c1))) ELSE c1
        priority == IF HasCookie(c2) THEN <<c2[CookiePos(c2) + 2]>> ELSE None
        c3 == IF HasCookie(c2) THEN AfterToken(c2, CookiePos(c2) + 3) ELSE c2
        content == CleanContent(c3)
    IN  IF content = <<>> THEN <<>>
        ELSE << [uuid |-> uuid, content |-> content, level |-> Level(line),
                 todo |-> todo, priority |-> priority,
                 scheduled |-> MarkerValue(c3, WordScheduled), deadline |-> MarkerValue(c3, WordDeadline),
                 properties |-> Entries(PropertyMatches(c3), 1)] >>

\* blocks of lines k..Len(lines); gen[i] is the UUID generated for line i
RECURSIVE ParseFrom(_, _, _)
ParseFrom(lines, gen, k) ==
  IF k > Len(lines) THEN <<>>
  ELSE ParseLine(lines[k], gen[k]) \o ParseFrom(lines, gen, k + 1)

parseBlocks(content, gen) == ParseFrom(Split(content), gen, 1)

Dashes == <<"-", "-", "-">>

\* a read that hands the whole file to parseBlocks
MarkdownContentWhole(content) == content

\* readPageFile: the text handed to parseBlocks (front matter removed)
MarkdownContent(content) ==
  IF StartsWith(content, Dashes) /\ Includes(SliceFrom(content, 3), Dashes)
  THEN SliceFrom(content, 3 + IndexOf(SliceFrom(content, 3), Dashes) - 1 + 3)
  ELSE content

\* ------------------------------------------------------------------------
\* The note collection: two page files under pages/, in directory order
\* ------------------------------------------------------------------------
NPages == 2

VARIABLES files, issued, inserts, last, requests, parses, reparsed,
          root, avail, reqs, writes, faults, sameProc

serverVars == <<files, issued, inserts, last, requests>>
parseVars == <<parses, reparsed>>
stepVars == <<root, avail, reqs, writes, faults, sameProc>>

vars == <<files, issued, inserts, last, requests, parses, reparsed,
          root, avail, reqs, writes, faults, sameProc>>

NumLines(content) == Len(Split(content))

\* getAllPages: every file parsed afresh; seed is this call's draw of UUIDs
PageBlocks(fs, seed, p) ==
  parseBlocks(MarkdownContent(fs[p]), [i \in 1..NumLines(fs[p]) |-> GenUuid(seed, p, i)])

RECURSIVE PagesFrom(_, _, _)
PagesFrom(fs, seed, p) ==
  IF p > NPages THEN <<>> ELSE <<PageBlocks(fs, seed, p)>> \o PagesFrom(fs, seed, p + 1)

getAllPages(fs, seed) == PagesFrom(fs, seed, 1)

\* block.uuid === blockUuid || block.uuid.slice(0, 8) === blockUuid ||
\* block.uuid.startsWith(blockUuid)
BlockMatches(block, blockUuid) ==
  \/ block.uuid = blockUuid
  \/ SliceTo(block.uuid, ShortLen) = blockUuid
  \/ StartsWith(block.uuid, blockUuid)

\* the inner loop over a page's blocks: the first block that matches, 0 when
\* none does
FirstBlock(blocks, blockUuid) == First({k \in 1..Len(blocks) : BlockMatches(blocks[k], blockUuid)})

\* the outer loop over the pages: the first page with a matching block, 0
\* when no page has one
FirstPage(pages, blockUuid) == First({p \in 1..Len(pages) : FirstBlock(pages[p], blockUuid) # 0})

\* ------------------------------------------------------------------------
\* delete_block ("ULTIMATE" version): the five search strategies
\* ------------------------------------------------------------------------
\* line.includes('- ') || line.includes('* ') || line.includes('+ ')
HasBulletSpace(line) == \E b \in Bullets : Includes(line, <<b, " ">>)

\* .replace(/^[a-f0-9]{8}\s+/, '')
StripShortUuid(s) == IF UuidMatch(s, ShortLen, HexChars) THEN AfterToken(s, ShortLen) ELSE s

\* .replace(/^(TODO|DOING|DONE|LATER|NOW|WAITING|IN-PROGRESS)\s+/, '')
StripTodo(s) == IF HasTodo(s) THEN AfterToken(s, Len(TodoOf(s))) ELSE s

\* .replace(/\[#[ABC]\]\s*/, ''): the first cookie and the white space after it
StripCookie(s) ==
  IF HasCookie(s) THEN SubSeq(s, 1, CookiePos(s) - 1) \o AfterToken(s, CookiePos(s) + 3) ELSE s

CleanedLine(line) == Trim(StripCookie(StripTodo(StripShortUuid(StripBullet(Trim(line))))))

PartialLen == 15

StrategyTest(n, line, shortUuid, blockContent) ==
  CASE n = 1 -> \E b \in Bullets : StartsWith(Trim(line), <<b, " ">> \o shortUuid \o <<" ">>)
    [] n = 2 -> Includes(line, shortUuid) /\ HasBulletSpace(line)
    [] n = 3 -> Includes(line, blockContent) /\ HasBulletSpace(line)
    [] n = 4 -> LET cleaned == CleanedLine(line) IN cleaned = blockContent \/ Includes(cleaned, blockContent)
    [] n = 5 -> /\ HasBulletSpace(line)
                /\ Len(SliceTo(blockContent, PartialLen)) > 3
                /\ Includes(line, SliceTo(blockContent, PartialLen))

NumStrategies == 5

\* an inner loop that keeps the last line the strategy accepts
LastLine(n, lines, shortUuid, blockContent) ==
  LET hits == {i \in 1..Len(lines) : StrategyTest(n, lines[i], shortUuid, blockContent)} IN
  IF hits = {} THEN 0 ELSE CHOOSE i \in hits : \A j \in hits : j <= i

\* the inner loop: the first line the strategy accepts, 0 when there is none
FirstLine(n, lines, shortUuid, blockContent) ==
  First({i \in 1..Len(lines) : StrategyTest(n, lines[i], shortUuid, blockContent)})

\* the outer loop: the first strategy that accepts a line, 0 when none does
FirstStrategy(lines, shortUuid, blockContent) ==
  First({n \in 1..NumStrategies : FirstLine(n, lines, shortUuid, blockContent) # 0})

\* ------------------------------------------------------------------------
\* The record of the last request: its arguments, its outcome, and the
\* files as they were when it started
\* ------------------------------------------------------------------------
NoOp == [op |-> "none", id |-> <<>>, arg |-> <<>>, page |-> 0, line |-> 0, strategy |-> 0,
         block |-> 0, result |-> "none", ret |-> <<>>, verified |-> "none", pre |-> <<>>]

\* a request answered: the files as the handler leaves them, and the record
\* of the request, its answer and the files it started from
Reply(op, id, arg, out) ==
  /\ files' = out.fs
  /\ last' = [op |-> op, id |-> id, arg |-> arg, page |-> out.page, line |-> out.line,
               strategy |-> out.strategy, block |-> out.block, result |-> out.result,
               ret |-> out.ret, verified |-> out.verified, pre |-> files]
  /\ UNCHANGED <<parseVars, stepVars>>

\* the re-read after the write: verificationContent is the text read back
\* "yes" when the deleted line is absent and the identity or the content is
\* absent too, "no" otherwise
AllVerifications(verificationContent, originalLine, shortUuid, blockContent) ==
  LET originalLineGone == ~Includes(verificationContent, Trim(originalLine))
      uuidGone == ~Includes(verificationContent, shortUuid)
      contentGone == ~Includes(verificationContent, blockContent)
  IN  IF originalLineGone /\ (uuidGone \/ contentGone) THEN "yes" ELSE "no"

\* an answer that turns a failed verification into a failure
DeleteReportStrict(verification) == IF verification = "no" THEN "error" ELSE "ok"

\* the answer after the re-read: success, with FINAL STATUS '100% SUCCESS'
\* or 'VERIFICATION ISSUE'
DeleteReport(verification) == "ok"

DeleteOutcomeOn(pages, fs, blockUuid) ==
  IF FirstPage(pages, blockUuid) = 0 THEN [result |-> "notfound", page |-> 0, line |-> 0, strategy |-> 0, block |-> 0, ret |-> <<>>, verified |-> "none", fs |-> fs]
  ELSE
    LET p == FirstPage(pages, blockUuid)
        pk == <<p, FirstBlock(pages[p], blockUuid)>>
        targetBlock == pages[pk[1]][pk[2]]
        lines == Split(fs[pk[1]])
        shortUuid == SliceTo(targetBlock.uuid, ShortLen)
        n == FirstStrategy(lines, shortUuid, targetBlock.content)
        lineToDelete == FirstLine(n, lines, shortUuid, targetBlock.content)
    IN  IF n = 0 THEN [result |-> "notfound", page |-> pk[1], line |-> 0, strategy |-> 0, block |-> pk[2], ret |-> <<>>, verified |-> "none", fs |-> fs]
        ELSE [result |-> DeleteReport(AllVerifications(Join(Splice(lines, lineToDelete)), lines[lineToDelete],
                                                        shortUuid, targetBlock.content)),
              page |-> pk[1], line |-> lineToDelete, strategy |-> n, block |-> pk[2], ret |-> <<>>,
              verified |-> AllVerifications(Join(Splice(lines, lineToDelete)), lines[lineToDelete],
                                            shortUuid, targetBlock.content),
              fs |-> [fs EXCEPT ![pk[1]] = Join(Splice(lines, lineToDelete))]]

DeleteOutcome(fs, seed, blockUuid) == DeleteOutcomeOn(getAllPages(fs, seed), fs, blockUuid)

\* s.slice(a, b)
Slice(s, a, b) == SubSeq(s, a + 1, Min(b, Len(s)))

\* ------------------------------------------------------------------------
\* delete_block of index-fixed.ts: one pass over the lines, four tests on
\* each line
\* ------------------------------------------------------------------------
FixedTest(n, line, shortUuid, blockContent) ==
  CASE n = 1 -> \E b \in Bullets : StartsWith(Trim(line), <<b, " ">> \o shortUuid \o <<" ">>)
    [] n = 2 -> Includes(Trim(line), blockContent) /\ \E b \in Bullets : StartsWith(Trim(line), <<b>>)
    [] n = 3 -> LET contentAfterMarkers == CleanedLine(line) IN
                \/ contentAfterMarkers = blockContent
                \/ Includes(contentAfterMarkers, blockContent)
                \/ Includes(blockContent, contentAfterMarkers)
    [] n = 4 -> /\ HasBulletSpace(line)
                /\ \/ Includes(line, SliceTo(blockContent, 10))
                   \/ Includes(blockContent, Slice(Trim(line), 2, 12))

NumFixedTests == 4

FixedLineMatches(line, shortUuid, blockContent) ==
  \E n \in 1..NumFixedTests : FixedTest(n, line, shortUuid, blockContent)

FixedFirstLine(lines, shortUuid, blockContent) ==
  First({i \in 1..Len(lines) : FixedLineMatches(lines[i], shortUuid, blockContent)})

\* the test that selected the line: the first one the line passes
FixedStrategy(line, shortUuid, blockContent) ==
  First({n \in 1..NumFixedTests : FixedTest(n, line, shortUuid, blockContent)})

\* the re-read after the write in index-fixed.ts
FullVerification(verificationContent, originalLine, shortUuid) ==
  LET deletionVerified == ~Includes(verificationContent, Trim(originalLine))
      uuidStillExists == Includes(verificationContent, shortUuid)
  IN  IF deletionVerified /\ ~uuidStillExists THEN "yes" ELSE "no"

\* the first page with a matching block decides: when the pass over its lines
\* selects none, the handler answers at once, without trying another page
DeleteFixedOutcomeOn(pages, fs, blockUuid) ==
  LET p == FirstPage(pages, blockUuid) IN
  IF p = 0 THEN [result |-> "notfound", page |-> 0, line |-> 0, strategy |-> 0, block |-> 0, ret |-> <<>>, verified |-> "none", fs |-> fs]
  ELSE
    LET k == FirstBlock(pages[p], blockUuid)
        block == pages[p][k]
        lines == Split(fs[p])
        shortUuid == SliceTo(block.uuid, ShortLen)
        lineToDelete == FixedFirstLine(lines, shortUuid, block.content)
    IN  IF lineToDelete = 0
        THEN [result |-> "notfound", page |-> p, line |-> 0, strategy |-> 0, block |-> k, ret |-> <<>>, verified |-> "none", fs |-> fs]
        ELSE [result |-> DeleteReport(FullVerification(Join(Splice(lines, lineToDelete)), lines[lineToDelete],
                                                        shortUuid)),
              page |-> p, line |-> lineToDelete,
              strategy |-> FixedStrategy(lines[lineToDelete], shortUuid, block.content), block |-> k,
              ret |-> <<>>,
              verified |-> FullVerification(Join(Splice(lines, lineToDelete)), lines[lineToDelete], shortUuid),
              fs |-> [fs EXCEPT ![p] = Join(Splice(lines, lineToDelete))]]

DeleteFixedOutcome(fs, seed, blockUuid) == DeleteFixedOutcomeOn(getAllPages(fs, seed), fs, blockUuid)

\* ------------------------------------------------------------------------
\* update_block
\* ------------------------------------------------------------------------
\* a test every line passes
LineIncludesAnything(line, blockUuid) == TRUE

LineIncludesUuid(line, blockUuid) ==
  \/ Includes(line, blockUuid)
  \/ (Len(blockUuid) >= ShortLen /\ Includes(line, SliceTo(blockUuid, ShortLen)))
  \/ (Len(blockUuid) <= ShortLen /\ Includes(line, blockUuid))

\* length of group 1 of /^(\s*- )(.*)$/, 0 when the line does not match
BulletPrefixLen(line) ==
  IF Len(line) >= LeadWs(line) + 2 /\ line[LeadWs(line) + 1] = "-" /\ line[LeadWs(line) + 2] = " "
  THEN LeadWs(line) + 2 ELSE 0

UpdatableLine(line, blockUuid) == LineIncludesUuid(line, blockUuid) /\ BulletPrefixLen(line) > 0

\* the first line of the file the loop rewrites, 0 when it rewrites none
UpdateLine(content, blockUuid) ==
  LET lines == Split(content) IN First({i \in 1..Len(lines) : UpdatableLine(lines[i], blockUuid)})

UpdateOutcome(fs, blockUuid, content) ==
  LET p == First({q \in 1..NPages : UpdateLine(fs[q], blockUuid) # 0}) IN
  IF p = 0 THEN [result |-> "notfound", page |-> 0, line |-> 0, strategy |-> 0, block |-> 0, ret |-> <<>>, verified |-> "none",
            fs |-> fs]
  ELSE LET lines == Split(fs[p])
           i == UpdateLine(fs[p], blockUuid)
       IN  [result |-> "ok", page |-> p, line |-> i,
            strategy |-> 0, block |-> 0, ret |-> <<>>, verified |-> "none",
            fs |-> [fs EXCEPT ![p] = Join([lines EXCEPT ![i] = SliceTo(lines[i], BulletPrefixLen(lines[i])) \o content])]]

\* ------------------------------------------------------------------------
\* insert_block: the line it appends
\* ------------------------------------------------------------------------
Decorate(todo, priority, content) ==
  (IF todo # None THEN todo \o <<" ">> ELSE <<>>)
    \o (IF priority # None THEN <<"[", "#">> \o priority \o <<"]", " ">> ELSE <<>>)
    \o content

\* a line written without the identity
InsertedLineNoId(uuid, todo, priority, content) == <<"-", " ">> \o Decorate(todo, priority, content)

\* v4.0: `- ${uuid.slice(0, 8)} ` + keyword + cookie + content
InsertedLine(uuid, todo, priority, content) ==
  <<"-", " ">> \o SliceTo(uuid, ShortLen) \o <<" ">> \o Decorate(todo, priority, content)

\* index-complete-v3.ts, index-complete-v4.ts: `- ` + keyword + cookie +
\* content, no identity
InsertedLinePlain(todo, priority, content) == <<"-", " ">> \o Decorate(todo, priority, content)

\* a write that puts the new line before the existing content
AppendLineOnTop(content, line) == line \o <<NL>> \o content

\* existingContent + '\n' + blockContent
AppendLine(content, line) == content \o <<NL>> \o line

\* ------------------------------------------------------------------------
\* delete_block of index-complete-v3.ts: the first line of the first file
\* that contains the first eight characters of the argument
\* ------------------------------------------------------------------------
\* a search on one character less of the argument
V3LineSeven(content, blockUuid) ==
  LET lines == Split(content) IN First({i \in 1..Len(lines) : Includes(lines[i], SliceTo(blockUuid, ShortLen - 1))})

V3Line(content, blockUuid) ==
  LET lines == Split(content) IN First({i \in 1..Len(lines) : Includes(lines[i], SliceTo(blockUuid, ShortLen))})

DeleteV3Outcome(fs, blockUuid) ==
  IF blockUuid = <<>> THEN [result |-> "error", page |-> 0, line |-> 0, strategy |-> 0, block |-> 0, ret |-> <<>>, verified |-> "none",
            fs |-> fs]
  ELSE LET p == First({q \in 1..NPages : V3Line(fs[q], blockUuid) # 0}) IN
  IF p = 0 THEN [result |-> "notfound", page |-> 0, line |-> 0, strategy |-> 0, block |-> 0, ret |-> <<>>, verified |-> "none",
            fs |-> fs]
  ELSE LET i == V3Line(fs[p], blockUuid)
       IN  [result |-> "ok", page |-> p, line |-> i,
            strategy |-> 0, block |-> 0, ret |-> <<>>, verified |-> "none",
            fs |-> [fs EXCEPT ![p] = Join(Splice(Split(fs[p]), i))]]

\* ------------------------------------------------------------------------
\* Inputs: the lines the files start with, and the arguments of requests
\* ------------------------------------------------------------------------
Foo == <<"f", "o", "o">>
Bar == <<"b", "a", "r">>
Baz == <<"b", "a", "z">>
New == <<"n", "e", "w">>

IdA == Rep("a", ShortLen)
IdB == Rep("b", ShortLen)
IdC == Rep("c", ShortLen) \o UuidTail("c")
IdStale == Rep("0", ShortLen)

LnHead == <<"#", " ", "t", " ", "-", " ">> \o Foo
LnBlank == <<>>
LnA == <<"-", " ">> \o IdA \o <<" ">> \o Foo
LnBIndented == <<" ", " ", "-", " ">> \o IdB \o <<" ">> \o KwDONE \o <<" ">> \o Bar
LnFoo == <<"-", " ">> \o Foo
LnBar == <<"-", " ">> \o Bar
LnC == <<"-", " ">> \o IdC \o <<" ">> \o Baz
LnRef == <<"-", " ", "s", "e", "e", " ", "(", "(">> \o IdC \o <<")", ")">>

InitPage1 == {Join(<<LnHead, LnBlank, LnA>>), Join(<<LnRef, LnC>>), Join(<<LnFoo, LnA>>), Join(<<LnHead, LnFoo, LnFoo>>)}
InitPage2 == {Join(<<LnBIndented, LnBar>>)}

Contents == {New}
InsertKinds == {<<None, None>>, <<KwTODO, None>>, <<None, <<"A">>>>}
RequestIds == {IdA, IdB, IdC, IdStale, <<>>} \cup {i.id : i \in issued}

\* ------------------------------------------------------------------------
\* A request in flight: where its handler stands and what it holds
\* ------------------------------------------------------------------------
Slots == {1, 2}

NoAgg == [dir |-> "pages", todo |-> <<>>, got |-> <<>>, blocks |-> <<>>]

IdleRequest ==
  [pc |-> "idle", op |-> "none", id |-> <<>>, arg |-> <<>>, target |-> 0, agg |-> NoAgg,
   page |-> 0, line |-> 0, block |-> 0, pre |-> <<>>, newContent |-> <<>>, readAt |-> 0,
   result |-> "none", verified |-> "none"]

\* no request being handled step by step, every file readable
NoRequestInFlight ==
  /\ root = TRUE
  /\ avail = [p \in DOMAIN files |-> "ok"]
  /\ reqs = [r \in Slots |-> IdleRequest]
  /\ writes = <<>>
  /\ faults = 0
  /\ sameProc = TRUE

\* ------------------------------------------------------------------------
\* The requests
\* ------------------------------------------------------------------------
Init ==
  /\ files \in {f \in [1..NPages -> InitPage1 \cup InitPage2] :
                  f[1] \in InitPage1 /\ \A p \in 2..NPages : f[p] \in InitPage2}
  /\ issued = {}
  /\ inserts = 0
  /\ last = NoOp
  /\ requests = 0
  /\ parses = <<>>
  /\ reparsed = <<>>
  /\ NoRequestInFlight

\* the draws of generateUUID of the call of getAllPages now starting
Seed == GenSeeds[requests + 1]

NotFound(fs) == [result |-> "notfound", page |-> 0, line |-> 0, strategy |-> 0, block |-> 0, ret |-> <<>>, verified |-> "none", fs |-> fs]

\* insert_block (v4.0), p = 0 standing for a page name that matches no page:
\* the line is appended and the first eight characters of its UUID returned
InsertOutcome(fs, p, uuid, todo, priority, content) ==
  IF p = 0 THEN NotFound(fs)
  ELSE [result |-> "ok", page |-> p, line |-> NumLines(fs[p]) + 1, strategy |-> 0, block |-> 0,
        ret |-> SliceTo(uuid, ShortLen), verified |-> "none",
        fs |-> [fs EXCEPT ![p] = AppendLine(fs[p], InsertedLine(uuid, todo, priority, content))]]

\* insert_block (index-complete-v3.ts): returns a UUID it did not write
InsertV3Outcome(fs, p, uuid, todo, priority, content) ==
  IF p = 0 THEN NotFound(fs)
  ELSE [result |-> "ok", page |-> p, line |-> NumLines(fs[p]) + 1, strategy |-> 0, block |-> 0,
        ret |-> uuid, verified |-> "none",
        fs |-> [fs EXCEPT ![p] = AppendLine(fs[p], InsertedLinePlain(todo, priority, content))]]

\* insert_block (index-complete-v4.ts): writes the line without the UUID and
\* returns the first eight characters of the UUID
InsertV4Outcome(fs, p, uuid, todo, priority, content) ==
  IF p = 0 THEN NotFound(fs)
  ELSE [result |-> "ok", page |-> p, line |-> NumLines(fs[p]) + 1, strategy |-> 0, block |-> 0,
        ret |-> SliceTo(uuid, ShortLen), verified |-> "none",
        fs |-> [fs EXCEPT ![p] = AppendLine(fs[p], InsertedLinePlain(todo, priority, content))]]

\* get_block: the first matching block of the first page that has one
GetOutcomeOn(pages, fs, blockUuid) ==
  LET p == FirstPage(pages, blockUuid) IN
  IF p = 0 THEN NotFound(fs)
  ELSE LET k == FirstBlock(pages[p], blockUuid)
       IN  [result |-> "ok", page |-> p, line |-> 0, strategy |-> 0, block |-> k,
            ret |-> pages[p][k].uuid, verified |-> "none", fs |-> fs]

GetOutcome(fs, seed, blockUuid) == GetOutcomeOn(getAllPages(fs, seed), fs, blockUuid)

Issue(p, id, embedded) ==
  issued' = IF p = 0 THEN issued ELSE issued \cup {[id |-> id, embedded |-> embedded]}

InsertBlock(p, kind, content) ==
  /\ requests = 0
  /\ inserts < MaxInserts
  /\ inserts' = inserts + 1
  /\ Reply("insert", <<>>, content, InsertOutcome(files, p, InsUuid(inserts + 1), kind[1], kind[2], content))
  /\ Issue(p, SliceTo(InsUuid(inserts + 1), ShortLen), TRUE)
  /\ UNCHANGED requests

InsertBlockV3(p, kind, content) ==
  /\ requests = 0
  /\ inserts < MaxInserts
  /\ inserts' = inserts + 1
  /\ Reply("insert_v3", <<>>, content, InsertV3Outcome(files, p, InsUuid(inserts + 1), kind[1], kind[2], content))
  /\ Issue(p, InsUuid(inserts + 1), FALSE)
  /\ UNCHANGED requests

InsertBlockV4(p, kind, content) ==
  /\ requests = 0
  /\ inserts < MaxInserts
  /\ inserts' = inserts + 1
  /\ Reply("insert_v4", <<>>, content, InsertV4Outcome(files, p, InsUuid(inserts + 1), kind[1], kind[2], content))
  /\ Issue(p, SliceTo(InsUuid(inserts + 1), ShortLen), FALSE)
  /\ UNCHANGED requests

\* every page is parsed once for a request, whatever the identity asked for
GetBlockOn(pages) ==
  \E blockUuid \in RequestIds : Reply("get", blockUuid, <<>>, GetOutcomeOn(pages, files, blockUuid))

GetBlock ==
  /\ requests < MaxRequests
  /\ requests' = requests + 1
  /\ GetBlockOn(getAllPages(files, Seed))
  /\ UNCHANGED <<issued, inserts>>

UpdateBlock(blockUuid, content) ==
  /\ requests < MaxRequests
  /\ requests' = requests + 1
  /\ Reply("update", blockUuid, content, UpdateOutcome(files, blockUuid, content))
  /\ UNCHANGED <<issued, inserts>>

DeleteBlockOn(pages) ==
  \E blockUuid \in RequestIds : Reply("delete", blockUuid, <<>>, DeleteOutcomeOn(pages, files, blockUuid))

DeleteBlock ==
  /\ requests < MaxRequests
  /\ requests' = requests + 1
  /\ DeleteBlockOn(getAllPages(files, Seed))
  /\ UNCHANGED <<issued, inserts>>

DeleteBlockFixedOn(pages) ==
  \E blockUuid \in RequestIds : Reply("delete_fixed", blockUuid, <<>>, DeleteFixedOutcomeOn(pages, files, blockUuid))

DeleteBlockFixed ==
  /\ requests < MaxRequests
  /\ requests' = requests + 1
  /\ DeleteBlockFixedOn(getAllPages(files, Seed))
  /\ UNCHANGED <<issued, inserts>>

DeleteBlockV3(blockUuid) ==
  /\ requests < MaxRequests
  /\ requests' = requests + 1
  /\ Reply("delete_v3", blockUuid, <<>>, DeleteV3Outcome(files, blockUuid))
  /\ UNCHANGED <<issued, inserts>>

Next ==
  \/ \E p \in 0..NPages, kind \in InsertKinds : InsertBlock(p, kind, Foo)
  \/ \E p \in 0..NPages : InsertBlockV3(p, <<None, None>>, Foo)
  \/ \E p \in 0..NPages : InsertBlockV4(p, <<None, None>>, Foo)
  \/ GetBlock
  \/ \E blockUuid \in RequestIds, content \in Contents : UpdateBlock(blockUuid, content)
  \/ DeleteBlock
  \/ DeleteBlockFixed
  \/ \E blockUuid \in RequestIds : DeleteBlockV3(blockUuid)

Spec == Init /\ [][Next]_vars

\* ------------------------------------------------------------------------
\* The parser on its own: one page file whose text is drawn from lines built
\* of every combination of the optional parts, parsed by successive calls of
\* getAllPages, and each block of the first parse written back as a line
\* and parsed again
\* ------------------------------------------------------------------------
MaxParses == 2

KeyK == <<"k">>
ValV == <<"v">>
DateOne == <<"2", "0", "2", "4", "-", "0", "1", "-", "1", "5">>
DateTwo == <<"2", "0", "2", "4", "-", "0", "2", "-", "0", "1">>

Marker(word, date) == word \o <<" ", "<">> \o date \o <<">">>
PropertyToken(key, value) == key \o <<":", " ">> \o value

Indents == {<<>>, <<" ", " ">>}
IdParts == {<<>>, IdA \o <<" ">>, IdC \o <<" ">>}
TodoParts == {<<>>, KwTODO \o <<" ">>}
CookieParts == {<<>>, <<"[", "#", "A", "]", " ">>}
LeadParts == {<<>>, PropertyToken(KeyK, ValV) \o <<" ">>}
Bodies == {Foo, Foo \o <<" ">> \o KwTODO \o <<" ">> \o Bar, KwDONE \o <<" ">> \o Foo}
TailParts == {<<>>, <<" ">> \o Marker(WordScheduled, DateOne), <<" ">> \o Marker(WordDeadline, DateTwo),
              <<" ">> \o PropertyToken(KeyK, ValV)}

ParseLines ==
  {indent \o <<"-", " ">> \o id \o todo \o cookie \o lead \o body \o tail :
     indent \in Indents, id \in IdParts, todo \in TodoParts, cookie \in CookieParts,
     lead \in LeadParts, body \in Bodies, tail \in TailParts}

\* free text before the priority cookie; a block reference, a page reference
\* and a tag in the text
LnMidCookie == <<"-", " ">> \o Foo \o <<" ", "[", "#", "A", "]", " ">> \o Bar
LnLinks == <<"-", " ">> \o Foo \o <<" ", "[", "[">> \o Bar \o <<"]", "]", " ", "#">> \o Baz

ShipRelease == <<"S", "h", "i", "p", " ", "r", "e", "l", "e", "a", "s", "e">>
DateThree == <<"2", "0", "2", "5", "-", "0", "1", "-", "1", "0">>
Soon == <<"s", "o", "o", "n">>

\* bullet, task keyword, priority cookie, free text, SCHEDULED marker
TaskLine(kw, pr, text, date) ==
  <<"-", " ">> \o kw \o <<" ", "[", "#", pr, "]", " ">> \o text \o <<" ">> \o Marker(WordScheduled, date)

TaskKeywords == {KwTODO, KwDOING, KwINPROGRESS}
TaskPriorities == {"A", "C"}
TaskTexts == {Foo, ShipRelease}
TaskDates == {DateThree, Soon}

TaskLines == {TaskLine(kw, pr, text, date) : kw \in TaskKeywords, pr \in TaskPriorities, text \in TaskTexts, date \in TaskDates}

ParseTexts ==
  ParseLines \cup {Join(<<LnHead, LnBlank, l, LnFoo>>) : l \in {LnA, LnC, LnBIndented}}
    \cup {LnMidCookie, LnLinks, LnRef} \cup TaskLines

ParseInit ==
  /\ files \in {f \in [1..NPages -> ParseTexts \cup {<<>>}] :
                  f[1] \in ParseTexts /\ \A p \in 2..NPages : f[p] = <<>>}
  /\ issued = {}
  /\ inserts = 0
  /\ last = NoOp
  /\ requests = 0
  /\ parses = <<>>
  /\ reparsed = <<>>
  /\ NoRequestInFlight

\* new Date() and the days next to it, as formatDate writes them
Yesterday == <<"2", "0", "2", "6", "-", "1", "1", "-", "0", "5">>
Today == <<"2", "0", "2", "6", "-", "1", "1", "-", "0", "6">>
Tomorrow == <<"2", "0", "2", "6", "-", "1", "1", "-", "0", "7">>
InvalidDate == <<"I", "n", "v", "a", "l", "i", "d", " ", "D", "a", "t", "e">>

WordToday == <<"t", "o", "d", "a", "y">>
WordYesterday == <<"y", "e", "s", "t", "e", "r", "d", "a", "y">>
WordTomorrow == <<"t", "o", "m", "o", "r", "r", "o", "w">>

\* /^([+-])(\d+)d$/
IsRelativeDate(s) ==
  /\ Len(s) >= 3
  /\ s[1] \in {"+", "-"}
  /\ s[Len(s)] = "d"
  /\ \A i \in 2..(Len(s) - 1) : s[i] \in Digits

\* YYYY-MM-DD, the form new Date(dateStr) reads as that day, UTC
IsIsoDate(s) ==
  /\ Len(s) = 10
  /\ \A i \in {1, 2, 3, 4, 6, 7, 9, 10} : s[i] \in Digits
  /\ s[5] = "-" /\ s[8] = "-"

\* formatDate(parseDate(dateStr)): the day as YYYY-MM-DD, InvalidDate when
\* the string is no date (toISOString then throws); a day n days from today
\* is written as today's date followed by the shift
FormattedDate(dateStr) ==
  IF dateStr = WordToday THEN Today
  ELSE IF dateStr = WordYesterday THEN Yesterday
  ELSE IF dateStr = WordTomorrow THEN Tomorrow
  ELSE IF IsRelativeDate(dateStr) THEN Today \o SubSeq(dateStr, 1, Len(dateStr) - 1)
  ELSE IF IsIsoDate(dateStr) THEN dateStr
  ELSE InvalidDate

\* the entries j.. of an object, each written as ` :${key}: ${value}`
RECURSIVE PropertyText(_, _)
PropertyText(properties, j) ==
  IF j > Len(properties) THEN <<>>
  ELSE <<" ", ":">> \o properties[j][1] \o <<":", " ">> \o properties[j][2]
         \o PropertyText(properties, j + 1)

\* what follows the content in the line insertBlock writes
BlockTail(scheduled, deadline, properties) ==
  (IF scheduled # None THEN <<" ">> \o Marker(WordScheduled, FormattedDate(scheduled)) ELSE <<>>)
    \o (IF deadline # None THEN <<" ">> \o Marker(WordDeadline, FormattedDate(deadline)) ELSE <<>>)
    \o PropertyText(properties, 1)

\* the line a block's fields make: bullet, identity, keyword, cookie and
\* content as insert_block writes them, then scheduled, deadline and
\* properties as insertBlock writes them; <<>> when a date is no date and
\* the write throws
SerializeBlock(b) ==
  IF \/ (b.scheduled # None /\ FormattedDate(b.scheduled) = InvalidDate)
     \/ (b.deadline # None /\ FormattedDate(b.deadline) = InvalidDate)
  THEN <<>>
  ELSE InsertedLine(b.uuid, b.todo, b.priority, b.content) \o BlockTail(b.scheduled, b.deadline, b.properties)

\* one more call of getAllPages: page 1 parsed afresh
ParsePage ==
  /\ Len(parses) < MaxParses
  /\ parses' = Append(parses, PageBlocks(files, GenSeeds[Len(parses) + 1], 1))
  /\ UNCHANGED <<files, issued, inserts, last, requests, reparsed, stepVars>>

\* each block of the first parse written back as one line, and that line
\* parsed
Reserialize ==
  /\ Len(parses) >= 1
  /\ reparsed = <<>>
  /\ Len(parses[1]) > 0
  /\ reparsed' = [k \in 1..Len(parses[1]) |->
                    ParseLine(SerializeBlock(parses[1][k]), GenUuid(GenSeeds[MaxParses + 1], 1, k))]
  /\ UNCHANGED <<files, issued, inserts, last, requests, parses, stepVars>>

ParseNext == ParsePage \/ Reserialize

ParseSpec == ParseInit /\ [][ParseNext]_vars

\* ------------------------------------------------------------------------
\* The handlers step by step. A handler runs from one await to the next
\* without interruption; between two such blocks other requests of the
\* process may run, and other processes may touch the files at any time.
\* Files 1..NPages are under pages/, the file after them under journals/.
\* A file is "ok", "unreadable" (reading it throws), "dangling" (a directory
\* entry whose statSync throws: a dangling link, or a file removed right after
\* readdirSync listed it) or "absent".
\* ------------------------------------------------------------------------
MaxFaults == 1

JournalFiles == {NPages + 1}
AllFiles == (1..NPages) \cup JournalFiles

\* findMarkdownFiles over the entries p..to of a directory: a statSync that
\* throws ends the loop, and what was collected before it is returned
RECURSIVE ListFrom(_, _, _)
ListFrom(av, p, to) ==
  IF p > to THEN <<>>
  ELSE IF av[p] = "absent" THEN ListFrom(av, p + 1, to)
  ELSE IF av[p] = "dangling" THEN <<>>
  ELSE <<p>> \o ListFrom(av, p + 1, to)

findMarkdownFiles(av, dir) ==
  IF dir = "pages" THEN ListFrom(av, 1, NPages)
  ELSE ListFrom(av, NPages + 1, NPages + Cardinality(JournalFiles))

\* await readPageFile(filePath); if (page) pages.push(page)
ReadPage(fs, av, seed, agg) ==
  LET p == Head(agg.todo) IN
  IF av[p] = "ok"
  THEN [agg EXCEPT !.todo = Tail(@), !.got = Append(@, p), !.blocks[p] = PageBlocks(fs, seed, p)]
  ELSE [agg EXCEPT !.todo = Tail(@)]

\* getAllPages from one await to the next: after the last file of pages/ the
\* listing of journals/ and the read of its first file
AggBlock(fs, av, seed, agg) ==
  LET a1 == IF agg.todo = <<>> /\ agg.dir = "pages"
            THEN [agg EXCEPT !.dir = "journals", !.todo = findMarkdownFiles(av, "journals")]
            ELSE agg
  IN  IF a1.todo = <<>> THEN a1 ELSE ReadPage(fs, av, seed, a1)

AggDone(agg) == agg.dir = "journals" /\ agg.todo = <<>>

\* what the synchronous part of a handler finds: "write" when it goes on to
\* write newContent to the file, "throw" when a call throws
Located(result, page, line, block, pre, newContent) ==
  [result |-> result, page |-> page, line |-> line, block |-> block, pre |-> pre, newContent |-> newContent]

\* insert_block: pages.find by name (target = 0: a name no file has)
InsertLocate(fs, av, agg, target, uuid, content) ==
  IF \A j \in 1..Len(agg.got) : agg.got[j] # target THEN Located("notfound", 0, 0, 0, <<>>, <<>>)
  ELSE IF av[target] # "ok" THEN Located("throw", target, 0, 0, <<>>, <<>>)
  ELSE Located("write", target, NumLines(fs[target]) + 1, 0, fs[target],
               AppendLine(fs[target], InsertedLine(uuid, None, None, content)))

\* update_block: each aggregated page read in turn, the first line found
\* rewritten
RECURSIVE UpdateFrom(_, _, _, _, _, _)
UpdateFrom(fs, av, got, j, blockUuid, content) ==
  IF j > Len(got) THEN Located("notfound", 0, 0, 0, <<>>, <<>>)
  ELSE IF av[got[j]] # "ok" THEN Located("throw", got[j], 0, 0, <<>>, <<>>)
  ELSE LET i == UpdateLine(fs[got[j]], blockUuid)
           lines == Split(fs[got[j]])
       IN  IF i = 0 THEN UpdateFrom(fs, av, got, j + 1, blockUuid, content)
           ELSE Located("write", got[j], i, 0, fs[got[j]],
                        Join([lines EXCEPT ![i] = SliceTo(lines[i], BulletPrefixLen(lines[i])) \o content]))

\* delete_block (v4.0): the target block found in the aggregated pages, its
\* file read, the line selected
DeleteLocate(fs, av, agg, blockUuid) ==
  LET p == FirstPage(agg.blocks, blockUuid) IN
  IF p = 0 THEN Located("notfound", 0, 0, 0, <<>>, <<>>)
  ELSE IF av[p] # "ok" THEN Located("throw", p, 0, 0, <<>>, <<>>)
  ELSE LET out == DeleteOutcomeOn(agg.blocks, fs, blockUuid) IN
       IF out.result = "notfound" THEN Located("notfound", p, 0, out.block, <<>>, <<>>)
       ELSE Located("write", p, out.line, out.block, fs[p], out.fs[p])

\* deleteBlock (v2.0): the first line of the first aggregated page that
\* includes the argument; throws when there is none
V2Line(content, blockUuid) ==
  LET lines == Split(content) IN First({i \in 1..Len(lines) : Includes(lines[i], blockUuid)})

RECURSIVE DeleteV2From(_, _, _, _, _)
DeleteV2From(fs, av, got, j, blockUuid) ==
  IF j > Len(got) THEN Located("throw", 0, 0, 0, <<>>, <<>>)
  ELSE IF av[got[j]] # "ok" THEN Located("throw", got[j], 0, 0, <<>>, <<>>)
  ELSE LET i == V2Line(fs[got[j]], blockUuid) IN
       IF i = 0 THEN DeleteV2From(fs, av, got, j + 1, blockUuid)
       ELSE Located("write", got[j], i, 0, fs[got[j]], Join(Splice(Split(fs[got[j]]), i)))

LocateOf(fs, av, r, req) ==
  CASE req.op = "insert" -> InsertLocate(fs, av, req.agg, req.target, InsUuid(r), req.arg)
    [] req.op = "update" -> UpdateFrom(fs, av, req.agg.got, 1, req.id, req.arg)
    [] req.op = "delete" -> DeleteLocate(fs, av, req.agg, req.id)
    [] req.op = "delete_v2" -> DeleteV2From(fs, av, req.agg.got, 1, req.id)

\* a handler without its try / catch
Uncaught(result) == result

\* try { ... } catch (error) { return { content: [{ text: `Error ...` }] } }
Caught(result) == IF result = "throw" THEN "error" ELSE result

Answered(req, result) == [req EXCEPT !.pc = "done", !.result = result]

\* a request in the same process stands between its read and its write
CanRun(r) == \A q \in Slots \ {r} : ~(sameProc /\ reqs[q].pc = "write")

InFlight(r) == reqs[r].pc \notin {"idle", "done"}

\* a request arrives and its handler runs to its first await
Start(r, kind) ==
  /\ reqs[r].pc = "idle"
  /\ CanRun(r)
  /\ reqs' = [reqs EXCEPT ![r] =
       LET req == [IdleRequest EXCEPT !.op = kind.op, !.id = kind.id, !.arg = kind.arg, !.target = kind.target] IN
       IF kind.op = "delete_v2" /\ ~kind.confirm THEN Answered(req, "unconfirmed")
       ELSE IF ~root THEN Answered(req, Caught("throw"))
       ELSE LET agg == AggBlock(files, avail, GenSeeds[r],
                                [dir |-> "pages", todo |-> findMarkdownFiles(avail, "pages"), got |-> <<>>,
                                 blocks |-> [p \in 1..(NPages + Cardinality(JournalFiles)) |-> <<>>]])
            IN  [req EXCEPT !.pc = IF AggDone(agg) THEN "main" ELSE "agg", !.agg = agg]]
  /\ UNCHANGED <<serverVars, parseVars, root, avail, writes, faults, sameProc>>

\* getAllPages resumes after an await
AggStep(r) ==
  /\ reqs[r].pc = "agg"
  /\ CanRun(r)
  /\ reqs' = [reqs EXCEPT ![r] =
       LET agg == AggBlock(files, avail, GenSeeds[r], reqs[r].agg) IN
       [@ EXCEPT !.pc = IF AggDone(agg) THEN "main" ELSE "agg", !.agg = agg]]
  /\ UNCHANGED <<serverVars, parseVars, root, avail, writes, faults, sameProc>>

LocateWith(r, out) ==
  reqs' = [reqs EXCEPT ![r] =
    IF out.result = "write"
    THEN [@ EXCEPT !.pc = "write", !.page = out.page, !.line = out.line, !.block = out.block,
                   !.pre = out.pre, !.newContent = out.newContent, !.readAt = Len(writes)]
    ELSE Answered([@ EXCEPT !.page = out.page, !.block = out.block], Caught(out.result))]

\* the handler resumes with the aggregated pages: finds its target and reads
\* the file
Locate(r) ==
  /\ reqs[r].pc = "main"
  /\ CanRun(r)
  /\ LocateWith(r, LocateOf(files, avail, r, reqs[r]))
  /\ UNCHANGED <<serverVars, parseVars, root, avail, writes, faults, sameProc>>

\* fs.writeFileSync(path, newContent): the whole file replaced
WriteFileKeeping(fs, p, content) == fs

WriteFile(fs, p, content) == [fs EXCEPT ![p] = content]

\* the write; delete_block (v4.0) then waits 100 ms, the others answer
Write(r) ==
  /\ reqs[r].pc = "write"
  /\ IF avail[reqs[r].page] = "unreadable"
     THEN /\ reqs' = [reqs EXCEPT ![r] = Answered(@, Caught("throw"))]
          /\ UNCHANGED <<files, avail, writes>>
     ELSE /\ files' = WriteFile(files, reqs[r].page, reqs[r].newContent)
          /\ avail' = [avail EXCEPT ![reqs[r].page] = "ok"]
          /\ writes' = Append(writes, <<r, reqs[r].page>>)
          /\ reqs' = [reqs EXCEPT ![r] =
               IF @.op = "delete" THEN [@ EXCEPT !.pc = "wait"] ELSE Answered(@, "ok")]
  /\ UNCHANGED <<issued, inserts, last, requests, parseVars, root, faults, sameProc>>

\* after the wait: the file read again and the deletion verified
Verify(r) ==
  /\ reqs[r].pc = "wait"
  /\ CanRun(r)
  /\ reqs' = [reqs EXCEPT ![r] =
       IF avail[@.page] # "ok" THEN Answered(@, Caught("throw"))
       ELSE LET b == @.agg.blocks[@.page][@.block]
                v == AllVerifications(files[@.page], Split(@.pre)[@.line], SliceTo(b.uuid, ShortLen), b.content)
            IN  Answered([@ EXCEPT !.verified = v], DeleteReport(v))]
  /\ UNCHANGED <<serverVars, parseVars, root, avail, writes, faults, sameProc>>

\* another process removes a file or takes its read permission away
Fault(p, kind) ==
  /\ faults < MaxFaults
  /\ \E r \in Slots : InFlight(r)
  /\ avail[p] = "ok"
  /\ avail' = [avail EXCEPT ![p] = kind]
  /\ faults' = faults + 1
  /\ UNCHANGED <<serverVars, parseVars, root, reqs, writes, sameProc>>

\* the files the step-by-step runs start from
StepFiles ==
  [p \in AllFiles |-> IF p = 1 THEN Join(<<LnFoo, LnA>>)
                      ELSE IF p <= NPages THEN Join(<<LnBIndented, LnBar>>)
                      ELSE Join(<<LnC>>)]

Kind(op, id, arg, target, confirm) == [op |-> op, id |-> id, arg |-> arg, target |-> target, confirm |-> confirm]

IoRequests ==
  {Kind("insert", <<>>, Foo, t, FALSE) : t \in {0, 1, NPages + 1}}
    \cup {Kind("update", id, New, 0, FALSE) : id \in {IdA, IdStale}}
    \cup {Kind("delete", id, <<>>, 0, FALSE) : id \in {IdA, IdC, IdStale}}
    \cup {Kind("delete_v2", IdA, <<>>, 0, c) : c \in BOOLEAN}
    \cup {Kind("delete_v2", IdStale, <<>>, 0, TRUE)}

\* one request, on a file system that can fail
IoInit ==
  /\ files = StepFiles
  /\ issued = {}
  /\ inserts = 0
  /\ last = NoOp
  /\ requests = 0
  /\ parses = <<>>
  /\ reparsed = <<>>
  /\ root \in BOOLEAN
  /\ avail \in {av \in [AllFiles -> {"ok", "unreadable", "dangling"}] :
                  /\ Cardinality({p \in AllFiles : av[p] # "ok"}) <= 1
                  /\ ~root => \A p \in AllFiles : av[p] = "ok"}
  /\ reqs = [r \in Slots |-> IdleRequest]
  /\ writes = <<>>
  /\ faults = 0
  /\ sameProc = TRUE

IoNext ==
  \/ \E kind \in IoRequests : Start(1, kind)
  \/ AggStep(1)
  \/ Locate(1)
  \/ Write(1)
  \/ Verify(1)
  \/ \E p \in AllFiles, kind \in {"unreadable", "absent"} : Fault(p, kind)

IoSpec == IoInit /\ [][IoNext]_vars

ConcRequests ==
  {Kind("insert", <<>>, Foo, 1, FALSE), Kind("update", IdA, New, 0, FALSE), Kind("delete", IdA, <<>>, 0, FALSE)}

\* two requests, in one process or in two, on a file system that does not
\* fail
ConcInit ==
  /\ files = StepFiles
  /\ issued = {}
  /\ inserts = 0
  /\ last = NoOp
  /\ requests = 0
  /\ parses = <<>>
  /\ reparsed = <<>>
  /\ root = TRUE
  /\ avail = [p \in AllFiles |-> "ok"]
  /\ reqs = [r \in Slots |-> IdleRequest]
  /\ writes = <<>>
  /\ faults = 0
  /\ sameProc \in BOOLEAN

\* the requests arrive in the order of their slots
Arrive(r) ==
  /\ \A q \in Slots : q < r => reqs[q].pc # "idle"
  /\ \E kind \in ConcRequests : Start(r, kind)

ConcNext ==
  \/ \E r \in Slots : Arrive(r)
  \/ \E r \in Slots : AggStep(r)
  \/ \E r \in Slots : Locate(r)
  \/ \E r \in Slots : Write(r)
  \/ \E r \in Slots : Verify(r)

ConcSpec == ConcInit /\ [][ConcNext]_vars

\* ------------------------------------------------------------------------
\* Vocabulary of the properties
\* ------------------------------------------------------------------------
DeleteOps == {"delete", "delete_fixed", "delete_v3"}

\* the draws of generateUUID of the request recorded in last
SeedBefore == GenSeeds[requests]

\* the lines of a file that parse to a block
BlockLines(content) ==
  LET lines == Split(content) IN {i \in 1..Len(lines) : ParseLine(lines[i], None) # <<>>}

\* the line the k-th block of a file is parsed from, 0 when there is none
LineOfBlock(content, k) ==
  First({i \in BlockLines(content) : Cardinality({j \in BlockLines(content) : j <= i}) = k})

\* the index of the block parsed from line i, 0 when line i yields no block
BlockOfLine(content, i) ==
  IF i \in BlockLines(content) THEN Cardinality({j \in BlockLines(content) : j <= i}) ELSE 0

ContentsOf(blocks) == [k \in 1..Len(blocks) |-> blocks[k].content]

\* a sequence without its k-th element
Without(seq, k) == [j \in 1..(Len(seq) - 1) |-> IF j < k THEN seq[j] ELSE seq[j + 1]]

Deleted == last.op \in DeleteOps /\ last.result = "ok"

\* C1: when delete_block has removed the line of a block from a page that
\* parsed to N blocks, the re-parse of the rewritten file yields the other
\* N-1 blocks, their content and their order unchanged
C1_DeleteLeavesOtherBlocks ==
  (Deleted /\ BlockOfLine(last.pre[last.page], last.line) # 0) =>
    LET before == PageBlocks(last.pre, SeedBefore, last.page)
        after == PageBlocks(files, Seed, last.page)
    IN  /\ Len(after) = Len(before) - 1
        /\ ContentsOf(after) = ContentsOf(Without(before, BlockOfLine(last.pre[last.page], last.line)))

C1_Witness ==
  /\ Deleted
  /\ BlockOfLine(last.pre[last.page], last.line) = 1
  /\ Len(PageBlocks(last.pre, SeedBefore, last.page)) >= 3

\* the identity occurs in no line of any file and matches no block of any page
NamesNothing(fs, seed, blockUuid) ==
  /\ blockUuid # <<>>
  /\ \A p \in 1..NPages : ~Includes(fs[p], SliceTo(blockUuid, ShortLen))
  /\ \A p \in 1..NPages : FirstBlock(PageBlocks(fs, seed, p), blockUuid) = 0

\* C2: an update or delete request that names an identity matching no block
\* and no line returns not-found and leaves every file byte-identical
C2_NotFoundWritesNothing ==
  (last.op \in DeleteOps \cup {"update"} /\ NamesNothing(last.pre, SeedBefore, last.id)) =>
    (last.result = "notfound" /\ files = last.pre)

C2_Witness ==
  /\ last.op = "update"
  /\ last.id = IdStale
  /\ NamesNothing(last.pre, SeedBefore, last.id)
  /\ inserts = MaxInserts

\* the request recorded in last is a delete_block that parsed the pages,
\* found a block for an identity of eight characters or more, and reported
\* success
DeletedBlock ==
  /\ last.op \in {"delete", "delete_fixed"}
  /\ last.result = "ok"
  /\ Len(last.id) >= ShortLen

\* C3: when delete_block reports success for identity X, the line removed is
\* the line the block with identity X was parsed from, and the re-parse of
\* the files yields no block with identity X
C3_DeleteRemovesTheNamedLine ==
  DeletedBlock =>
    /\ last.line = LineOfBlock(last.pre[last.page], last.block)
    /\ \A p \in 1..NPages : FirstBlock(PageBlocks(files, Seed, p), last.id) = 0

\* the strategy recorded in last is one of the content strategies
ByContent ==
  \/ last.op = "delete" /\ last.strategy >= 3
  \/ last.op = "delete_fixed" /\ last.strategy >= 2

\* the identity of the block the delete in last resolved
TargetShortUuid == SliceTo(PageBlocks(last.pre, SeedBefore, last.page)[last.block].uuid, ShortLen)

TargetContent == PageBlocks(last.pre, SeedBefore, last.page)[last.block].content

\* C4: a line is selected through a content strategy only if no line of the
\* file matches an identity strategy (identity marker at line start, identity
\* marker anywhere in a bulleted line)
C4_IdentityStrategiesFirst ==
  (last.op \in {"delete", "delete_fixed"} /\ last.result = "ok" /\ ByContent) =>
    LET lines == Split(last.pre[last.page]) IN
    \A i \in 1..Len(lines) :
      /\ ~(\E b \in Bullets : StartsWith(Trim(lines[i]), <<b, " ">> \o TargetShortUuid \o <<" ">>))
      /\ ~(Includes(lines[i], TargetShortUuid) /\ HasBulletSpace(lines[i]))

\* the content test that selected the line removed by the delete in last
ContentTest(line) ==
  IF last.op = "delete" THEN StrategyTest(last.strategy, line, TargetShortUuid, TargetContent)
  ELSE FixedTest(last.strategy, line, TargetShortUuid, TargetContent)

\* the lines of a file that contain the text
Occurrences(content, text) ==
  LET lines == Split(content) IN {i \in 1..Len(lines) : Includes(lines[i], text)}

\* C5: when a delete is resolved by content matching, exactly one line is
\* removed, it is the first line of the file that matches, and every other
\* line, the other occurrences of the content among them, remains
C5_FirstContentMatchRemoved ==
  (last.op \in {"delete", "delete_fixed"} /\ last.result = "ok" /\ ByContent) =>
    LET lines == Split(last.pre[last.page]) IN
    /\ ContentTest(lines[last.line])
    /\ \A j \in 1..(last.line - 1) : ~ContentTest(lines[j])
    /\ files[last.page] = Join(Without(lines, last.line))
    /\ \A q \in 1..NPages : q # last.page => files[q] = last.pre[q]
    /\ Cardinality(Occurrences(files[last.page], TargetContent))
         >= Cardinality(Occurrences(last.pre[last.page], TargetContent)) - 1

C5_Witness ==
  /\ last.op = "delete"
  /\ last.result = "ok"
  /\ last.strategy = 3
  /\ Cardinality(Occurrences(last.pre[last.page], TargetContent)) >= 3
  /\ Cardinality(Occurrences(files[last.page], TargetContent)) >= 2

Updated == last.op = "update" /\ last.result = "ok"

\* the identity token a line carries after its bullet, <<>> when it has none
IdentityToken(line) ==
  LET c0 == StripBullet(Trim(line)) IN
  IF UuidMatch(c0, FullLen, HexChars \cup {"-"}) THEN SliceTo(c0, FullLen)
  ELSE IF UuidMatch(c0, ShortLen, HexChars) THEN SliceTo(c0, ShortLen)
  ELSE <<>>

\* the task keyword a line carries after its bullet and identity token
KeywordOf(line) ==
  LET c0 == StripBullet(Trim(line))
      c1 == IF IdentityToken(line) = <<>> THEN c0 ELSE AfterToken(c0, Len(IdentityToken(line)))
  IN  IF HasTodo(c1) THEN TodoOf(c1) ELSE None

\* C6: update_block rewrites only the content part of the selected line: its
\* indentation, bullet marker, embedded identity token and task keyword are
\* the same after the update as before it
C6_UpdateKeepsThePrefix ==
  Updated =>
    LET old == Split(last.pre[last.page])[last.line]
        new == Split(files[last.page])[last.line]
    IN  /\ LeadWs(new) = LeadWs(old)
        /\ new[LeadWs(new) + 1] = old[LeadWs(old) + 1]
        /\ IdentityToken(new) = IdentityToken(old)
        /\ KeywordOf(new) = KeywordOf(old)

\* the lines of a file that differ between two versions of it
ChangedLines(before, after) ==
  LET b == Split(before)
      a == Split(after)
  IN  {i \in 1..Len(b) : i > Len(a) \/ a[i] # b[i]} \cup {i \in 1..Len(a) : i > Len(b)}

\* C7: a successful update_block changes exactly one line of exactly one
\* file, the line of the block whose identity was requested, and no other
\* line of any file
C7_UpdateChangesTheNamedLine ==
  (Updated /\ Len(last.id) >= ShortLen) =>
    LET pages == getAllPages(last.pre, SeedBefore)
        p == FirstPage(pages, last.id)
    IN  /\ p # 0
        /\ ChangedLines(last.pre[p], files[p]) = {LineOfBlock(last.pre[p], FirstBlock(pages[p], last.id))}
        /\ \A q \in 1..NPages : q # p => files[q] = last.pre[q]

\* the identities insert_block has returned, by whether the inserted line
\* carries them
EmbeddedIds == {i.id : i \in {j \in issued : j.embedded}}

UnembeddedIds == {i.id : i \in {j \in issued : ~j.embedded}}

\* C8: after update_block has succeeded with an identity insert_block
\* returned, get_block, update_block and delete_block with that identity still
\* resolve to the block on the updated line
C8_IdentitySurvivesUpdate ==
  (Updated /\ last.id \in EmbeddedIds) =>
    LET got == GetOutcome(files, Seed, last.id)
        upd == UpdateOutcome(files, last.id, New)
        del == DeleteOutcome(files, Seed, last.id)
    IN  /\ got.result = "ok" /\ got.page = last.page
        /\ LineOfBlock(files[last.page], got.block) = last.line
        /\ upd.result = "ok" /\ upd.page = last.page /\ upd.line = last.line
        /\ del.result = "ok" /\ del.page = last.page /\ del.line = last.line

\* C9: a delete_block with an identity that insert_block returned without
\* writing it into the inserted line answers not-found and leaves every file
\* unchanged
C9_UnembeddedIdentityNotFound ==
  (last.op \in DeleteOps /\ last.id \in UnembeddedIds) =>
    (last.result = "notfound" /\ files = last.pre)

C9_Witness ==
  /\ last.op = "delete_v3"
  /\ last.id \in UnembeddedIds
  /\ Len(last.id) = FullLen
  /\ last.result = "notfound"

\* the line insert_block wrote for an identity: <<page, line>>, <<0, 0>> when
\* no line starts with the bullet and the identity
InsertedAt(fs, id) ==
  LET at == {pi \in UNION {{p} \X (1..NumLines(fs[p])) : p \in 1..NPages} :
               StartsWith(Split(fs[pi[1]])[pi[2]], <<"-", " ">> \o id \o <<" ">>)}
  IN  IF at = {} THEN <<0, 0>> ELSE CHOOSE pi \in at : TRUE

\* the identity resolves, on a fresh parse, to the block of the line
\* insert_block wrote for it
FoundByIdentity(fs, seed, id) ==
  LET got == GetOutcome(fs, seed, id) IN
  /\ got.result = "ok"
  /\ <<got.page, LineOfBlock(fs[got.page], got.block)>> = InsertedAt(fs, id)

BlockLine(k) == Split(files[1])[LineOfBlock(files[1], k)]

\* C11: a block whose line starts (after the bullet) with an identity token
\* is parsed with that token as its identity, so every parse of the unchanged
\* line yields the same identity
C11_EmbeddedIdentityStable ==
  \A n \in 1..Len(parses) : \A k \in 1..Len(parses[n]) :
    IdentityToken(BlockLine(k)) # <<>> =>
      /\ parses[n][k].uuid = IdentityToken(BlockLine(k))
      /\ parses[n][k].uuid = parses[1][k].uuid

\* ------------------------------------------------------------------------
\* Properties of the verification after a write
\* ------------------------------------------------------------------------
VerifyingOps == {"delete", "delete_fixed"}

\* C12: when the re-read after delete_block's write does not confirm the
\* edit, the request is still answered with success (and the warning), and
\* the file stays as it was written: the selected line removed, nothing
\* restored
C12_UnconfirmedDeleteStillSucceeds ==
  (last.op \in VerifyingOps /\ last.verified = "no") =>
    /\ last.result = "ok"
    /\ files[last.page] = Join(Without(Split(last.pre[last.page]), last.line))
    /\ files # last.pre
    /\ \A p \in 1..NPages : p # last.page => files[p] = last.pre[p]

C12_Witness ==
  /\ last.op = "delete"
  /\ last.verified = "no"
  /\ last.result = "ok"
  /\ files # last.pre

\* C13: every replace or delete that succeeds has re-read the file after
\* its write and carries the result of that verification in its answer
C13_EveryWriteIsVerified ==
  (last.op \in DeleteOps \cup {"update"} /\ last.result = "ok") => last.verified \in {"yes", "no"}

\* everything of a block but its identity
StructureOf(b) == <<b.content, b.level, b.todo, b.priority, b.scheduled, b.deadline, b.properties>>

HoldsKeyword(c) == \E kw \in TodoKeywords : Includes(c, kw)
HoldsMarker(c) ==
  \E i \in 1..Len(c) : MarkerLen(c, i, WordScheduled) > 0 \/ MarkerLen(c, i, WordDeadline) > 0
HoldsProperty(c) == \E i \in 1..Len(c) : PropertyLen(c, i) > 0

\* C19: the content of every parsed block holds no task keyword, no priority
\* cookie, no SCHEDULED: / DEADLINE: marker and no key: value property token
C19_NoMetadataInContent ==
  \A n \in 1..Len(parses) : \A k \in 1..Len(parses[n]) :
    /\ ~HoldsKeyword(parses[n][k].content)
    /\ ~HasCookie(parses[n][k].content)
    /\ ~HoldsMarker(parses[n][k].content)
    /\ ~HoldsProperty(parses[n][k].content)

\* the fields a line is written back from, identity and depth left out; the
\* properties as the key-value pairs of the object, whatever their order
FieldsOf(b) ==
  <<b.content, b.todo, b.priority, b.scheduled, b.deadline,
    {b.properties[j] : j \in 1..Len(b.properties)}>>

\* C20: a block's fields written back as one line (bullet, identity, keyword,
\* cookie, content, scheduling markers, properties) parse to a block with the
\* same content, task state, priority, scheduled, deadline and properties
C20_SerializeParseRoundTrip ==
  \A k \in 1..Len(reparsed) :
    /\ reparsed[k] # <<>>
    /\ FieldsOf(reparsed[k][1]) = FieldsOf(parses[1][k])

\* ------------------------------------------------------------------------
\* Properties of the handlers step by step
\* ------------------------------------------------------------------------
Answers == {"ok", "notfound", "error", "unconfirmed"}

\* C14: whatever the arguments and the state of the file system (no root
\* directory, no such page, a file unreadable or removed between the
\* aggregation and a later read), a request ends with a success or a tagged
\* failure: no exception leaves the handler
C14_NoExceptionEscapes ==
  \A r \in Slots :
    /\ reqs[r].result \in Answers \cup {"none"}
    /\ reqs[r].pc = "done" <=> reqs[r].result \in Answers

C14_Witness ==
  /\ reqs[1].op = "delete"
  /\ reqs[1].pc = "done"
  /\ reqs[1].result = "error"
  /\ Len(writes) = 1
  /\ avail[reqs[1].page] = "absent"

\* C15: when one file cannot be read or disappears while getAllPages runs,
\* the aggregated pages hold every other readable file of pages/ and
\* journals/
C15_OnlyTheBadFileOmitted ==
  \A r \in Slots :
    reqs[r].pc = "main" =>
      \A p \in AllFiles : avail[p] = "ok" => \E j \in 1..Len(reqs[r].agg.got) : reqs[r].agg.got[j] = p

\* C16: within one process a request is handled from its first step to its
\* last before a step of another request runs: two requests are never in
\* flight together
C16_OneRequestAtATime ==
  sameProc => Cardinality({r \in Slots : InFlight(r)}) <= 1

\* the i-th write came between the read and the write of the request that
\* wrote j-th, on the same file
Overlapped(i, j) ==
  /\ i < j
  /\ writes[i][2] = writes[j][2]
  /\ writes[i][1] # writes[j][1]
  /\ reqs[writes[j][1]].readAt < i

LastWriteOn(p) == CHOOSE j \in 1..Len(writes) : writes[j][2] = p /\ \A k \in (j + 1)..Len(writes) : writes[k][2] # p

\* C17: when a request wrote a file between the read and the write of
\* another, the file holds exactly what the last writer wrote, and that was
\* made from the text read before the other's write
C17_LastWriterWins ==
  \A i, j \in 1..Len(writes) :
    (Overlapped(i, j) /\ j = LastWriteOn(writes[j][2])) =>
      /\ files[writes[j][2]] = reqs[writes[j][1]].newContent
      /\ reqs[writes[j][1]].pre # reqs[writes[i][1]].newContent

\* both answered with success, and the line the first writer inserted is not
\* in the file
C17_Witness ==
  /\ Len(writes) = 2
  /\ Overlapped(1, 2)
  /\ \A r \in Slots : reqs[r].pc = "done" /\ reqs[r].result = "ok"
  /\ reqs[writes[1][1]].op = "insert"
  /\ ~Includes(files[1], InsertedLine(InsUuid(writes[1][1]), None, None, Foo))

\* ------------------------------------------------------------------------
\* parseBlocks: the reference patterns
\* ------------------------------------------------------------------------
\* /\(\(([a-f0-9-]{36})\)\)/, /\[\[([^\]]+)\]\]/ and /#([a-zA-Z0-9_-]+)/ at
\* position i: 0 when the pattern does not match there, else the length of
\* the match
RefLen(kind, s, i) ==
  CASE kind = "block" ->
         IF /\ i + FullLen + 3 <= Len(s)
            /\ s[i] = "(" /\ s[i + 1] = "("
            /\ \A j \in 2..(FullLen + 1) : s[i + j] \in HexChars \cup {"-"}
            /\ s[i + FullLen + 2] = ")" /\ s[i + FullLen + 3] = ")"
         THEN FullLen + 4 ELSE 0
    [] kind = "page" ->
         IF i + 1 > Len(s) \/ s[i] # "[" \/ s[i + 1] # "[" THEN 0
         ELSE LET close == First({k \in (i + 2)..Len(s) : s[k] = "]"})
              IN  IF close <= i + 2 \/ close + 1 > Len(s) \/ s[close + 1] # "]" THEN 0
                  ELSE close + 2 - i
    [] kind = "tag" ->
         IF i > Len(s) \/ s[i] # "#" \/ RunLen(s, i + 1, NameChar) = 0 THEN 0
         ELSE 1 + RunLen(s, i + 1, NameChar)

\* ------------------------------------------------------------------------
\* Properties of the parser: content and extracted tokens
\* ------------------------------------------------------------------------
\* a text without the matches of a reference pattern
RECURSIVE WithoutRefs(_, _)
WithoutRefs(kind, s) ==
  LET i == First({k \in 1..Len(s) : RefLen(kind, s, k) > 0}) IN
  IF i = 0 THEN s
  ELSE SubSeq(s, 1, i - 1) \o WithoutRefs(kind, SubSeq(s, i + RefLen(kind, s, i), Len(s)))

\* the text of a line after its bullet, identity token and leading task
\* keyword
AfterPrefix(line) ==
  LET c0 == StripBullet(Trim(line))
      c1 == IF IdentityToken(line) = <<>> THEN c0 ELSE AfterToken(c0, Len(IdentityToken(line)))
  IN  StripTodo(c1)

\* a line without the spans of its tokens: bullet, identity, task keyword,
\* scheduling markers, inline properties, priority cookies, references
SpansRemoved(line) ==
  Trim(WithoutRefs("tag", WithoutRefs("page", WithoutRefs("block",
    RemoveAll(RemoveAll(RemoveAll(RemoveAll(AfterPrefix(line), "scheduled"), "deadline"), "property"), "cookie")))))

\* C21: the content of a block is its line without the spans of the
\* extracted tokens (bullet, identity, task keyword, priority cookie,
\* scheduling markers, inline properties, reference syntax), trimmed: nothing
\* else is dropped and no such span is left
C21_ContentIsLineMinusTokens ==
  \A n \in 1..Len(parses) : \A k \in 1..Len(parses[n]) :
    parses[n][k].content = SpansRemoved(BlockLine(k))

\* C22: a line made of a bullet, a task keyword, a priority cookie, free
\* text and a SCHEDULED marker parses to exactly one block, with that task
\* state, that priority, the free text alone as content and the marker's date
\* string as scheduled
C22_TaskLineParses ==
  \A kw \in TodoKeywords, pr \in PriorityLetters, text \in TaskTexts, date \in TaskDates :
    files[1] = TaskLine(kw, pr, text, date) =>
      \A n \in 1..Len(parses) :
        /\ Len(parses[n]) = 1
        /\ parses[n][1].todo = kw
        /\ parses[n][1].priority = <<pr>>
        /\ parses[n][1].content = text
        /\ parses[n][1].scheduled = date

\* `- TODO [#A] Ship release SCHEDULED: <2025-01-10>` parsed
C22_Witness ==
  /\ files[1] = TaskLine(KwTODO, "A", ShipRelease, DateThree)
  /\ Len(parses) >= 1
  /\ parses[1][1].content = ShipRelease
  /\ parses[1][1].scheduled = DateThree

\* ------------------------------------------------------------------------
\* The pages as files with names: readPageFile, and the tools that create
\* files, search the collection and move a block. The files are the entries
\* of PagePaths, in directory order; a file that does not exist is Absent.
\* ------------------------------------------------------------------------
MaxPageOps == 2

Absent == <<"<", "a", "b", "s", "e", "n", "t", ">">>

PathPage(name) == [dir |-> "pages", name |-> name]
PathJournal(name) == [dir |-> "journals", name |-> name]

NameMatters == <<"m", "a", "t", "t", "e", "r", "s">>
NameNew == <<"n", "e", "w">>
NameUrgent == <<"u", "r", "g", "e", "n", "t">>
TodayFile == <<"2", "0", "2", "6", "_", "1", "1", "_", "0", "6">>
TomorrowFile == <<"2", "0", "2", "6", "_", "1", "1", "_", "0", "7">>

PagePaths ==
  <<PathPage(NameMatters), PathPage(NameNew), PathPage(NameUrgent),
    PathJournal(Today), PathJournal(Tomorrow), PathJournal(TodayFile), PathJournal(TomorrowFile)>>

PageFiles == 1..Len(PagePaths)

\* the file of a path, 0 when the path is none of PagePaths
FileOf(path) == First({p \in PageFiles : PagePaths[p] = path})

\* String.prototype.trim(): white space and line ends
TrimAll(s) ==
  LET ink == {i \in 1..Len(s) : ~(IsSpace(s[i]) \/ s[i] = NL)} IN
  IF ink = {} THEN <<>> ELSE SubSeq(s, First(ink), CHOOSE i \in ink : \A j \in ink : j <= i)

\* content.slice(3, endIndex).trim(), <<>> when the file has no front matter
FrontMatter(content) ==
  IF StartsWith(content, Dashes) /\ Includes(SliceFrom(content, 3), Dashes)
  THEN TrimAll(SubSeq(content, 4, 3 + IndexOf(SliceFrom(content, 3), Dashes) - 1))
  ELSE <<>>

\* frontMatter.split('\n').forEach(...): the key and value of every line
\* that has a colon after its first character
RECURSIVE HeaderPairs(_, _)
HeaderPairs(lines, j) ==
  IF j > Len(lines) THEN <<>>
  ELSE LET colonIndex == IndexOf(lines[j], <<":">>) - 1
       IN  (IF colonIndex > 0
            THEN << <<TrimAll(SliceTo(lines[j], colonIndex)), TrimAll(SliceFrom(lines[j], colonIndex + 1))>> >>
            ELSE <<>>)
           \o HeaderPairs(lines, j + 1)

PageProperties(content) == Entries(HeaderPairs(Split(FrontMatter(content)), 1), 1)

\* properties[key], <<>> for undefined
PropertyValue(properties, key) ==
  IF \E j \in 1..Len(properties) : properties[j][1] = key
  THEN properties[CHOOSE j \in 1..Len(properties) : properties[j][1] = key][2]
  ELSE <<>>

WordTitle == <<"t", "i", "t", "l", "e">>

\* pageName.match(/^(\d{4})_(\d{2})_(\d{2})$/)
IsJournalName(name) ==
  /\ Len(name) = 10
  /\ \A i \in {1, 2, 3, 4, 6, 7, 9, 10} : name[i] \in Digits
  /\ name[5] = "_" /\ name[8] = "_"

\* parseInt(dateMatch[1] + dateMatch[2] + dateMatch[3]), written in digits
JournalDay(name) == SubSeq(name, 1, 4) \o SubSeq(name, 6, 7) \o SubSeq(name, 9, 10)

\* readPageFile: the page of file p
readPageFile(fs, seed, p) ==
  [path |-> p,
   name |-> PagePaths[p].name,
   title |-> IF PropertyValue(PageProperties(fs[p]), WordTitle) # <<>>
             THEN PropertyValue(PageProperties(fs[p]), WordTitle) ELSE PagePaths[p].name,
   blocks |-> PageBlocks(fs, seed, p),
   properties |-> PageProperties(fs[p]),
   isJournal |-> PagePaths[p].dir = "journals",
   journalDay |-> IF PagePaths[p].dir = "journals" /\ IsJournalName(PagePaths[p].name)
                  THEN JournalDay(PagePaths[p].name) ELSE None]

\* getAllPages: the files of pages/, then those of journals/, each read
RECURSIVE AllPagesFrom(_, _, _)
AllPagesFrom(fs, seed, p) ==
  IF p > Len(PagePaths) THEN <<>>
  ELSE (IF fs[p] = Absent THEN <<>> ELSE <<readPageFile(fs, seed, p)>>) \o AllPagesFrom(fs, seed, p + 1)

AllPages(fs, seed) == AllPagesFrom(fs, seed, 1)

\* the page read from file p, in a sequence of at most one element
PageOf(pages, p) == SelectSeq(pages, LAMBDA page : page.path = p)

\* ------------------------------------------------------------------------
\* Inputs of the page-level runs
\* ------------------------------------------------------------------------
UrgentMatters == <<"U", "r", "g", "e", "n", "t", " ", "M", "a", "t", "t", "e", "r", "s">>
ThisIsUrgent == <<"t", "h", "i", "s", " ", "i", "s", " ", "U", "R", "G", "E", "N", "T">>
UrgentFoo == <<"u", "r", "g", "e", "n", "t", " ", "f", "o", "o">>

HeaderLine(key, value) == key \o <<":", " ">> \o value

\* a bullet line: indentation, bullet, text
BodyLine(indent, text) == Rep(" ", indent) \o <<"-", " ">> \o text

\* a file with a delimited header: the header lines between two lines of
\* three dashes, then the body lines
PageText(header, body) == Join(<<Dashes>> \o header \o <<Dashes>> \o body)

\* a header and the title it gives (<<>>: the header has no title line)
Header(lines, title) == [lines |-> lines, title |-> title]

Headers ==
  {Header(<<HeaderLine(WordTitle, UrgentMatters)>>, UrgentMatters),
   Header(<<HeaderLine(<<"t", "a", "g", "s">>, Baz), HeaderLine(WordTitle, Bar)>>, Bar),
   Header(<<HeaderLine(<<"t", "a", "g", "s">>, Baz)>>, <<>>)}

\* bodies as sequences of <<indentation, text>>
Outlines ==
  {<< <<0, ThisIsUrgent>>, <<2, UrgentFoo>> >>,
   << <<0, Foo>>, <<3, Bar>>, <<4, Baz>>, <<2, Foo>> >>}

BodyOf(outline) == [k \in 1..Len(outline) |-> BodyLine(outline[k][1], outline[k][2])]

HeadedTexts == {PageText(header.lines, BodyOf(outline)) : header \in Headers, outline \in Outlines}

PlainTexts == {Join(<<LnFoo, LnA>>), Join(<<LnRef, LnC>>)}

JournalText == Join(<<BodyLine(0, UrgentFoo)>>)

\* the files in the order of PagePaths
PageInit ==
  /\ files \in {<<matters, new, urgent, Absent, Absent, journal, Absent>> :
                  matters \in HeadedTexts, new \in {Absent, Join(<<LnRef, LnFoo>>)},
                  urgent \in PlainTexts, journal \in {Absent, JournalText}}
  /\ issued = {}
  /\ inserts = 0
  /\ last = NoOp
  /\ requests = 0
  /\ parses = <<>>
  /\ reparsed = <<>>
  /\ NoRequestInFlight

Outcome(result, page, line, ret, fs) ==
  [result |-> result, page |-> page, line |-> line, strategy |-> 0, block |-> 0, ret |-> ret,
   verified |-> "none", fs |-> fs]

\* a page-level request answered
PageReply(op, id, arg, out) ==
  /\ requests < MaxPageOps
  /\ requests' = requests + 1
  /\ Reply(op, id, arg, out)
  /\ UNCHANGED <<issued, inserts>>

\* list_pages: getAllPages, every page returned
ListPages == PageReply("list", <<>>, <<>>, Outcome("ok", 0, 0, AllPages(files, Seed), files))

\* ------------------------------------------------------------------------
\* Properties of the pages
\* ------------------------------------------------------------------------
Listed == last.op = "list" /\ last.result = "ok"

\* C23: a file that starts with a delimited header followed by bullet lines
\* is read as a page whose title is the header's title property (the file's
\* name when the header has none) and whose blocks are the bullet lines of
\* the body, in file order, each at depth half its indentation; no header
\* line becomes a block
C23_HeaderIsNotBody ==
  \A header \in Headers, outline \in Outlines, p \in PageFiles :
    (Listed /\ last.pre[p] = PageText(header.lines, BodyOf(outline))) =>
      /\ Len(PageOf(last.ret, p)) = 1
      /\ LET page == PageOf(last.ret, p)[1] IN
         /\ page.title = (IF header.title # <<>> THEN header.title ELSE PagePaths[p].name)
         /\ Len(page.blocks) = Len(outline)
         /\ \A k \in 1..Len(outline) :
              /\ page.blocks[k].content = outline[k][2]
              /\ page.blocks[k].level = outline[k][1] \div 2

C23_Witness ==
  /\ Listed
  /\ \E page \in {last.ret[j] : j \in 1..Len(last.ret)} :
       /\ page.title = Bar
       /\ page.name = NameMatters
       /\ Len(page.properties) = 2
       /\ Len(page.blocks) = 4
       /\ page.blocks[2].level = 1

\* ------------------------------------------------------------------------
\* search: one RegExp with the flags 'gi', tested on every name, title and
\* content in turn
\* ------------------------------------------------------------------------
UpperLetters == <<"A", "B", "C", "D", "E", "F", "G", "H", "I", "J", "K", "L", "M",
                  "N", "O", "P", "Q", "R", "S", "T", "U", "V", "W", "X", "Y", "Z">>
LowerLetters == <<"a", "b", "c", "d", "e", "f", "g", "h", "i", "j", "k", "l", "m",
                  "n", "o", "p", "q", "r", "s", "t", "u", "v", "w", "x", "y", "z">>

\* the flag 'i': letters compared without their case
Fold(c) == IF c \in Upper THEN LowerLetters[CHOOSE i \in 1..Len(UpperLetters) : UpperLetters[i] = c] ELSE c

MatchAtFolded(s, p, i) == i + Len(p) - 1 <= Len(s) /\ \A j \in 1..Len(p) : Fold(s[i + j - 1]) = Fold(p[j])

\* searchRegex.test(text) with the flag 'g': the search starts at lastIndex
\* (counted from 0); a match leaves lastIndex after it, a failure resets it
RegexTest(text, query, lastIndex) ==
  LET i == IF lastIndex > Len(text) THEN 0
           ELSE First({k \in (lastIndex + 1)..(Len(text) + 1) : MatchAtFolded(text, query, k)})
  IN  IF i = 0 THEN [found |-> FALSE, lastIndex |-> 0]
      ELSE [found |-> TRUE, lastIndex |-> i - 1 + Len(query)]

PageHit(page) == [type |-> "page", page |-> page.path, block |-> 0]
BlockHit(page, k) == [type |-> "block", page |-> page.path, block |-> k]

\* for (const block of page.blocks): the results from block k on, then those
\* of the pages after this one
RECURSIVE SearchFrom(_, _, _, _, _)
SearchFrom(pages, j, k, query, lastIndex) ==
  IF j > Len(pages) THEN <<>>
  ELSE IF k = 0
  THEN LET byName == RegexTest(pages[j].name, query, lastIndex)
           byTitle == RegexTest(pages[j].title, query, byName.lastIndex)
       IN  IF byName.found THEN <<PageHit(pages[j])>> \o SearchFrom(pages, j, 1, query, byName.lastIndex)
           ELSE IF byTitle.found THEN <<PageHit(pages[j])>> \o SearchFrom(pages, j, 1, query, byTitle.lastIndex)
           ELSE SearchFrom(pages, j, 1, query, byTitle.lastIndex)
  ELSE IF k > Len(pages[j].blocks) THEN SearchFrom(pages, j + 1, 0, query, lastIndex)
  ELSE LET byContent == RegexTest(pages[j].blocks[k].content, query, lastIndex)
       IN  (IF byContent.found THEN <<BlockHit(pages[j], k)>> ELSE <<>>)
             \o SearchFrom(pages, j, k + 1, query, byContent.lastIndex)

SearchResults(pages, query) == SearchFrom(pages, 1, 0, query, 0)

Queries == {<<"u", "r", "g", "e", "n", "t">>, Foo}

\* search: "notfound" stands for the answer 'No results found'
Search(query) ==
  PageReply("search", <<>>, query,
            LET results == SearchResults(AllPages(files, Seed), query)
            IN  Outcome(IF results = <<>> THEN "notfound" ELSE "ok", 0, 0, results, files))

\* ------------------------------------------------------------------------
\* Properties of search
\* ------------------------------------------------------------------------
ContainsFolded(text, query) == \E i \in 1..Len(text) : MatchAtFolded(text, query, i)

\* C24: a search returns a page hit for every page whose name or title holds
\* the query, letters compared without case, and a block hit for every block
\* whose content holds it, whatever matched before in the collection
C24_SearchFindsEveryMatch ==
  last.op = "search" =>
    LET pages == AllPages(last.pre, SeedBefore)
        results == {last.ret[j] : j \in 1..Len(last.ret)}
    IN  \A j \in 1..Len(pages) :
          /\ (ContainsFolded(pages[j].name, last.arg) \/ ContainsFolded(pages[j].title, last.arg))
               => PageHit(pages[j]) \in results
          /\ \A k \in 1..Len(pages[j].blocks) :
               ContainsFolded(pages[j].blocks[k].content, last.arg) => BlockHit(pages[j], k) \in results

\* the width of the leading white space and the depth of every block of the
\* pages listed, as pairs
WidthsAndDepths ==
  UNION {LET body == MarkdownContent(last.pre[last.ret[j].path]) IN
         {<<LeadWs(Split(body)[LineOfBlock(body, k)]), last.ret[j].blocks[k].level>> :
            k \in 1..Len(last.ret[j].blocks)} : j \in 1..Len(last.ret)}

\* C25: of two lines, the one with the wider leading white space is parsed
\* at a depth at least that of the other
C25_DepthMonotone ==
  Listed => \A a, b \in WidthsAndDepths : a[1] < b[1] => a[2] <= b[2]

C25_Witness ==
  /\ Listed
  /\ \E a, b \in WidthsAndDepths : a[1] < b[1] /\ a[2] = b[2]
  /\ \E a, b \in WidthsAndDepths : a[1] < b[1] /\ a[2] < b[2] /\ a[2] > 0

\* ------------------------------------------------------------------------
\* create_journal_page (v4.0) and createJournalPage (v2.0)
\* ------------------------------------------------------------------------
MonthNames == <<<<"J", "a", "n">>, <<"F", "e", "b">>, <<"M", "a", "r">>, <<"A", "p", "r">>, <<"M", "a", "y">>, <<"J", "u", "n">>,
                <<"J", "u", "l">>, <<"A", "u", "g">>, <<"S", "e", "p">>, <<"O", "c", "t">>, <<"N", "o", "v">>, <<"D", "e", "c">>>>

\* a number of two digits without its leading zero
Numeric(dd) == IF dd[1] = "0" THEN <<dd[2]>> ELSE dd

\* the number a string of two digits writes
TwoDigits(dd) ==
  LET val(c) == CHOOSE n \in 0..9 : <<"0", "1", "2", "3", "4", "5", "6", "7", "8", "9">>[n + 1] = c
  IN  10 * val(dd[1]) + val(dd[2])

\* targetDate.toLocaleDateString() of the day YYYY-MM-DD, en-US: M/D/YYYY
LocaleDate(day) == Numeric(SubSeq(day, 6, 7)) \o <<"/">> \o Numeric(SubSeq(day, 9, 10)) \o <<"/">> \o SubSeq(day, 1, 4)

\* date.toLocaleDateString('en-US', { month: 'short', day: 'numeric', year:
\* 'numeric' }): Mon D, YYYY
ShortDate(day) ==
  MonthNames[TwoDigits(SubSeq(day, 6, 7))] \o <<" ">> \o Numeric(SubSeq(day, 9, 10)) \o <<",", " ">> \o SubSeq(day, 1, 4)

\* create_journal_page (v4.0): the day of the argument ('today', 'tomorrow')
\* as toISOString().split('T')[0] writes it
TargetDay(date) == IF date = WordTomorrow THEN Tomorrow ELSE Today

JournalContent(day) ==
  <<"#", " ">> \o day \o <<NL, NL>> \o <<"-", " ", "J", "o", "u", "r", "n", "a", "l", " ", "e", "n", "t", "r", "y", " ", "f", "o", "r", " ">> \o LocaleDate(day)
    \o <<NL>> \o <<"-", " ", "T", "O", "D", "O", " ", "A", "d", "d", " ", "y", "o", "u", "r", " ", "t", "h", "o", "u", "g", "h", "t", "s", " ", "f", "o", "r", " ", "t", "o", "d", "a", "y">> \o <<NL>>

\* the file journals/<day>.md is written unless it exists
CreateJournalOutcome(fs, date) ==
  LET p == FileOf(PathJournal(TargetDay(date))) IN
  IF fs[p] # Absent THEN Outcome("exists", p, 0, TargetDay(date), fs)
  ELSE Outcome("ok", p, 0, TargetDay(date), [fs EXCEPT ![p] = JournalContent(TargetDay(date))])

CreateJournalPage(date) == PageReply("create_journal", <<>>, date, CreateJournalOutcome(files, date))

\* formatDate(date).replace(/-/g, '_')
Underscored(day) == [i \in 1..Len(day) |-> IF day[i] = "-" THEN "_" ELSE day[i]]

\* createJournalPage (v2.0): the file journals/<day with underscores>.md is
\* written with a title line and an empty bullet; throws when it exists, and
\* the tool answers with the error
CreateJournalV2Outcome(fs, date) ==
  LET day == FormattedDate(date)
      p == FileOf(PathJournal(Underscored(day)))
  IN  IF fs[p] # Absent THEN Outcome("error", p, 0, day, fs)
      ELSE Outcome("ok", p, 0, day,
                   [fs EXCEPT ![p] = <<"#", " ">> \o ShortDate(day) \o <<NL, NL, "-", " ">>])

CreateJournalPageV2(date) == PageReply("create_journal_v2", <<>>, date, CreateJournalV2Outcome(files, date))

JournalDates == {WordToday, WordTomorrow}

\* ------------------------------------------------------------------------
\* Properties of the journal pages
\* ------------------------------------------------------------------------
\* a file name that writes a day: YYYY-MM-DD or YYYY_MM_DD
EncodesDate(name) ==
  /\ Len(name) = 10
  /\ \A i \in {1, 2, 3, 4, 6, 7, 9, 10} : name[i] \in Digits
  /\ name[5] \in {"-", "_"} /\ name[8] = name[5]

DigitsOf(name) == SelectSeq(name, LAMBDA c : c \in Digits)

\* C26: every page under journals/ whose file name writes a date, the pages
\* create_journal_page wrote among them, is read with isJournal true and the
\* date of its file name as journal date
C26_JournalPagesCarryTheirDate ==
  Listed =>
    \A j \in 1..Len(last.ret) :
      (PagePaths[last.ret[j].path].dir = "journals" /\ EncodesDate(last.ret[j].name)) =>
        /\ last.ret[j].isJournal
        /\ last.ret[j].journalDay = DigitsOf(last.ret[j].name)

\* ------------------------------------------------------------------------
\* Properties of insert_block's write
\* ------------------------------------------------------------------------
InsertOps == {"insert", "insert_v3", "insert_v4"}

Acted == last.op \in {"get", "update"} \cup DeleteOps /\ last.result = "ok"

\* the block the request acted on: the block it resolved, or else the block
\* of the line it selected; 0 when that line is no block
ActedBlock ==
  IF last.block # 0 THEN last.block ELSE BlockOfLine(last.pre[last.page], last.line)

\* C28: get_block, update_block and delete_block act on a block only when
\* the identity supplied is the block's full identity or its short identity
\* of eight characters; a shorter, empty or overlapping string selects no
\* block and no line
C28_OnlyExactIdentitySelects ==
  Acted =>
    /\ ActedBlock # 0
    /\ LET b == PageBlocks(last.pre, SeedBefore, last.page)[ActedBlock]
       IN  last.id \in {b.uuid, SliceTo(b.uuid, ShortLen)}

\* ------------------------------------------------------------------------
\* create_page (v4.0) and createPage (v2.0, called without properties)
\* ------------------------------------------------------------------------
\* `# ${pageName}\n\n`, then the content or `- Created on ${date}`
PageContent(pageName, content) ==
  <<"#", " ">> \o pageName \o <<NL, NL>>
    \o (IF content # <<>> THEN content ELSE <<"-", " ", "C", "r", "e", "a", "t", "e", "d", " ", "o", "n", " ">> \o LocaleDate(Today))

\* `# ${pageName}\n\n`, then the content or `- `
PageContentV2(pageName, content) ==
  <<"#", " ">> \o pageName \o <<NL, NL>> \o (IF TrimAll(content) # <<>> THEN content ELSE <<"-", " ">>)

\* fs.writeFileSync(filePath, pageContent)
CreatePageOutcome(fs, pageName, pageContent) ==
  LET p == FileOf(PathPage(pageName)) IN Outcome("ok", p, 0, <<>>, [fs EXCEPT ![p] = pageContent])

CreatePage(pageName, content) ==
  PageReply("create_page", pageName, content, CreatePageOutcome(files, pageName, PageContent(pageName, content)))

CreatePageV2(pageName, content) ==
  PageReply("create_page_v2", pageName, content, CreatePageOutcome(files, pageName, PageContentV2(pageName, content)))

NewPageNames == {NameMatters, NameNew}
NewPageContents == {<<>>, LnFoo}

\* ------------------------------------------------------------------------
\* Properties of create_page
\* ------------------------------------------------------------------------
\* C29: create_page does not replace the content of a page file that exists:
\* after a request to create a page whose name is taken, the file is what it
\* was
C29_CreateKeepsExistingPage ==
  (last.op \in {"create_page", "create_page_v2"} /\ last.pre[last.page] # Absent) =>
    files[last.page] = last.pre[last.page]

\* ------------------------------------------------------------------------
\* move_block (index-complete-v3.ts)
\* ------------------------------------------------------------------------
\* p.name.toLowerCase() === args.targetPageName.toLowerCase()
SameNameFolded(a, b) == Len(a) = Len(b) /\ \A i \in 1..Len(a) : Fold(a[i]) = Fold(b[i])

\* pages.find(...): the first file with that name, 0 when there is none
TargetPage(fs, targetPageName) ==
  First({p \in PageFiles : fs[p] # Absent /\ SameNameFolded(PagePaths[p].name, targetPageName)})

\* the loop over the pages from file p on: in every file, the first line that
\* holds the short identity is kept as blockContent and removed, and the file
\* written; the break leaves the loop over the lines only
RECURSIVE MoveScan(_, _, _, _)
MoveScan(fs, p, short, blockContent) ==
  IF p > Len(PagePaths) THEN [fs |-> fs, blockContent |-> blockContent]
  ELSE IF fs[p] = Absent THEN MoveScan(fs, p + 1, short, blockContent)
  ELSE LET lines == Split(fs[p])
           i == First({k \in 1..Len(lines) : Includes(lines[k], short)})
       IN  IF i = 0 THEN MoveScan(fs, p + 1, short, blockContent)
           ELSE MoveScan([fs EXCEPT ![p] = Join(Splice(lines, i))], p + 1, short, lines[i])

\* ret is the line appended to the target page
MoveOutcome(fs, blockUuid, targetPageName) ==
  IF blockUuid = <<>> \/ targetPageName = <<>> THEN Outcome("error", 0, 0, <<>>, fs)
  ELSE IF TargetPage(fs, targetPageName) = 0 THEN Outcome("notfound", 0, 0, <<>>, fs)
  ELSE LET t == TargetPage(fs, targetPageName)
           scan == MoveScan(fs, 1, SliceTo(blockUuid, ShortLen), <<>>)
       IN  IF scan.blockContent = <<>> THEN Outcome("notfound", t, 0, <<>>, scan.fs)
           ELSE Outcome("ok", t, NumLines(scan.fs[t]) + 1, scan.blockContent,
                        [scan.fs EXCEPT ![t] = AppendLine(scan.fs[t], scan.blockContent)])

MoveBlock(blockUuid, targetPageName) ==
  PageReply("move", blockUuid, targetPageName, MoveOutcome(files, blockUuid, targetPageName))

MoveIds == {IdA, IdC, IdStale}
MoveTargets == {NameMatters, NameNew}

PageNext ==
  \/ ListPages
  \/ \E query \in Queries : Search(query)
  \/ \E date \in JournalDates : CreateJournalPage(date)
  \/ \E date \in JournalDates : CreateJournalPageV2(date)
  \/ \E pageName \in NewPageNames, content \in NewPageContents : CreatePage(pageName, content)
  \/ \E pageName \in NewPageNames, content \in NewPageContents : CreatePageV2(pageName, content)
  \/ \E blockUuid \in MoveIds, targetPageName \in MoveTargets : MoveBlock(blockUuid, targetPageName)

PageSpec == PageInit /\ [][PageNext]_vars

\* ------------------------------------------------------------------------
\* Properties of move_block
\* ------------------------------------------------------------------------
\* the number of blocks, and of lines, of the files from file p on
RECURSIVE BlockCount(_, _)
BlockCount(fs, p) ==
  IF p > Len(PagePaths) THEN 0
  ELSE (IF fs[p] = Absent THEN 0 ELSE Len(PageBlocks(fs, GenSeeds[1], p))) + BlockCount(fs, p + 1)

RECURSIVE LineCount(_, _)
LineCount(fs, p) ==
  IF p > Len(PagePaths) THEN 0
  ELSE (IF fs[p] = Absent THEN 0 ELSE NumLines(fs[p])) + LineCount(fs, p + 1)

Moved == last.op = "move" /\ last.result = "ok"

\* C30: move_block takes the line of the block out of one page and appends
\* that line once to the target page: the line moved is the line that carries
\* the identity asked for, the target page ends with it, and the collection
\* has as many lines and as many blocks after the move as before
C30_MoveKeepsEveryBlock ==
  Moved =>
    /\ IdentityToken(last.ret) \in {last.id, SliceTo(last.id, ShortLen)}
    /\ Split(files[last.page])[NumLines(files[last.page])] = last.ret
    /\ LineCount(files, 1) = LineCount(last.pre, 1)
    /\ BlockCount(files, 1) = BlockCount(last.pre, 1)
====
